---- MODULE Spec2Model ----
(***************************************************************************)
(* Model of the PDF-to-Markdown conversion of mdview                       *)
(* (convertPdfToMarkdown and formatAsMarkdown, src/src/LogAnalysis.js).    *)
(*                                                                         *)
(* A JavaScript string is a sequence of one-character strings.  The bullet *)
(* glyphs and the en/em dash are written by their code points ("u2022").   *)
(* Coordinates are integers in half units (a value y2 stands for y2 / 2),  *)
(* so that Math.round meets exact halves.                                  *)
(***************************************************************************)
EXTENDS Integers, Sequences, FiniteSets, TLC

\* ------------------------------------------------------------------------
\* Characters and character classes of the regular expressions
\* ------------------------------------------------------------------------

\* \s, restricted to the white space the model's inputs use
WS == {" ", "\t", "\n", "\r"}

\* the characters at which '.' stops and before which a multiline '$' matches
LineTerminator == {"\n", "\r"}

\* \d
Digit == {"0", "1", "2", "3", "4", "5", "6", "7", "8", "9"}

\* [a-z]
LowerAZ == {"a", "b", "c", "d", "e", "f", "g", "h", "i", "j", "k", "l", "m",
            "n", "o", "p", "q", "r", "s", "t", "u", "v", "w", "x", "y", "z"}

\* [a-z] under the i flag also accepts these
UpperAZ == {"A", "B", "C", "D", "E", "F", "G", "H", "I", "J", "K", "L", "M",
            "N", "O", "P", "Q", "R", "S", "T", "U", "V", "W", "X", "Y", "Z"}

\* [ivxlcdm] under the i flag
RomanChars == {"i", "v", "x", "l", "c", "d", "m", "I", "V", "X", "L", "C", "D", "M"}

\* bulletChars: the sixteen glyphs of the character class, by code point
BulletChars == {"u2022", "u25CF", "u25CB", "u25A0", "u25A1", "u25AA", "u25AB",
                "u2713", "u2717", "u25C6", "u25C7", "u2605", "u2606", "u27A4",
                "u27A2", "u2B9E"}

\* [-–—]
DashChars == {"-", "u2013", "u2014"}

\* [.,;:!?)\]\n] together with \s and *: what may follow a closing marker
ClosePunct == {".", ",", ";", ":", "!", "?", ")", "]", "\n"}

\* ------------------------------------------------------------------------
\* A backtracking matcher for the regular expressions the code uses.
\* A regular expression is a sequence of items; an item is a character
\* class with a quantifier, or an anchor.  max = -1 means unbounded.
\* ------------------------------------------------------------------------

In(set) == [k |-> "cls", neg |-> FALSE, set |-> set, min |-> 1, max |-> 1, lazy |-> FALSE]

NotIn(set) == [k |-> "cls", neg |-> TRUE, set |-> set, min |-> 1, max |-> 1, lazy |-> FALSE]

Lit(c) == In({c})

Plus(it) == [it EXCEPT !.min = 1, !.max = -1]

Star(it) == [it EXCEPT !.min = 0, !.max = -1]

Opt(it) == [it EXCEPT !.min = 0, !.max = 1]

AtLeast(n, it) == [it EXCEPT !.min = n, !.max = -1]

Lazy(it) == [it EXCEPT !.lazy = TRUE]

\* '$' under the m flag
EolM == [k |-> "eolm", neg |-> FALSE, set |-> {}, min |-> 0, max |-> 0, lazy |-> FALSE]

\* '$' without the m flag
Eos == [k |-> "eos", neg |-> FALSE, set |-> {}, min |-> 0, max |-> 0, lazy |-> FALSE]

\* '^' without the m flag
Bos == [k |-> "bos", neg |-> FALSE, set |-> {}, min |-> 0, max |-> 0, lazy |-> FALSE]

InClass(c, it) == IF it.neg THEN c \notin it.set ELSE c \in it.set

NoMatch == <<>>

RECURSIVE RunLen(_, _, _, _)
\* how many characters after offset pos the item can consume at most
RunLen(it, s, pos, n) ==
  IF (it.max # -1 /\ n >= it.max) \/ pos + n >= Len(s) THEN n
  ELSE IF ~InClass(s[pos + n + 1], it) THEN n
  ELSE RunLen(it, s, pos, n + 1)

RECURSIVE MatchItems(_, _, _, _)
RECURSIVE TryCounts(_, _, _, _, _, _)
\* the boundaries <<b_i, ..., b_end>> of the first match (in backtracking
\* priority order) of the items i.. of re at offset pos of s, or NoMatch
MatchItems(re, i, s, pos) ==
  IF i > Len(re) THEN <<pos>>
  ELSE LET it == re[i]
           anchored == CASE it.k = "eolm" -> pos = Len(s) \/ (pos < Len(s) /\ s[pos + 1] \in LineTerminator)
                         [] it.k = "eos" -> pos = Len(s)
                         [] it.k = "bos" -> pos = 0
                         [] OTHER -> FALSE
       IN IF it.k # "cls"
          THEN IF anchored
               THEN LET r == MatchItems(re, i + 1, s, pos)
                    IN IF r = NoMatch THEN NoMatch ELSE <<pos>> \o r
               ELSE NoMatch
          ELSE LET run == RunLen(it, s, pos, 0)
               IN IF run < it.min THEN NoMatch
                  ELSE TryCounts(re, i, s, pos, IF it.lazy THEN it.min ELSE run, run)

TryCounts(re, i, s, pos, n, run) ==
  LET r == MatchItems(re, i + 1, s, pos + n)
  IN IF r # NoMatch THEN <<pos>> \o r
     ELSE IF re[i].lazy
          THEN IF n >= run THEN NoMatch ELSE TryCounts(re, i, s, pos, n + 1, run)
          ELSE IF n <= re[i].min THEN NoMatch ELSE TryCounts(re, i, s, pos, n - 1, run)

RECURSIVE FindAll(_, _, _)
\* the successive matches of a g-flag regular expression, scanning from offset from
FindAll(re, s, from) ==
  IF from > Len(s) THEN <<>>
  ELSE LET m == MatchItems(re, 1, s, from)
       IN IF m = NoMatch THEN FindAll(re, s, from + 1)
          ELSE <<m>> \o FindAll(re, s, IF m[Len(m)] > from THEN m[Len(m)] ELSE from + 1)

\* the text the items i..j of match m consumed
Group(s, m, i, j) == SubSeq(s, m[i] + 1, m[j + 1])

RECURSIVE Splice(_, _, _, _, _)
\* String.prototype.replace: s with match k replaced by reps[k]
Splice(s, ms, reps, k, from) ==
  IF k > Len(ms) THEN SubSeq(s, from + 1, Len(s))
  ELSE SubSeq(s, from + 1, ms[k][1]) \o reps[k] \o Splice(s, ms, reps, k + 1, ms[k][Len(ms[k])])

\* RegExp.prototype.test
Test(re, s) == \E from \in 0..Len(s) : MatchItems(re, 1, s, from) # NoMatch

\* ------------------------------------------------------------------------
\* String helpers
\* ------------------------------------------------------------------------

RECURSIVE TrimStart(_)
TrimStart(s) == IF s # <<>> /\ Head(s) \in WS THEN TrimStart(Tail(s)) ELSE s

RECURSIVE TrimEnd(_)
TrimEnd(s) == IF s # <<>> /\ s[Len(s)] \in WS THEN TrimEnd(SubSeq(s, 1, Len(s) - 1)) ELSE s

\* String.prototype.trim
Trim(s) == TrimEnd(TrimStart(s))

RECURSIVE SplitOn(_, _, _)
\* String.prototype.split on the characters of seps; acc is the part being
\* read; with keep the separators are parts too (a capturing group)
SplitOn(s, seps, acc) ==
  IF s = <<>> THEN <<acc>>
  ELSE IF Head(s) \in seps
       THEN <<acc>> \o SplitOn(Tail(s), seps, <<>>)
       ELSE SplitOn(Tail(s), seps, Append(acc, Head(s)))

RECURSIVE SplitKeep(_, _, _)
SplitKeep(s, seps, acc) ==
  IF s = <<>> THEN <<acc>>
  ELSE IF Head(s) \in seps
       THEN <<acc, <<Head(s)>> >> \o SplitKeep(Tail(s), seps, <<>>)
       ELSE SplitKeep(Tail(s), seps, Append(acc, Head(s)))

RECURSIVE Join(_, _)
\* Array.prototype.join
Join(parts, sep) ==
  IF parts = <<>> THEN <<>>
  ELSE IF Len(parts) = 1 THEN parts[1]
  ELSE parts[1] \o sep \o Join(Tail(parts), sep)

\* ------------------------------------------------------------------------
\* Pass 1 and the font analysis (convertPdfToMarkdown)
\* ------------------------------------------------------------------------

\* a text item of the extraction library: str, fontName (undefined is <<>>
\* after "|| ''"), and transform[0], transform[4], transform[5] as ts, tx, ty
Abs(n) == IF n < 0 THEN -n ELSE n

\* mutant: a half rounds away from zero
RoundHalfAway(y2) == IF y2 >= 0 THEN (y2 + 1) \div 2 ELSE -((1 - y2) \div 2)

\* Math.round of a coordinate given in half units: floor(y + 0.5)
Round(y2) == (y2 + 1) \div 2

\* what allItems.push receives for one item
FontItem(item) == [fontName |-> item.fontName, fontSize |-> Abs(item.ts)]

RECURSIVE FontItems(_)
\* textContent.items.forEach(item => allItems.push(...))
FontItems(items) ==
  IF items = <<>> THEN <<>> ELSE <<FontItem(Head(items))>> \o FontItems(Tail(items))

RECURSIVE FontKeys(_, _)
\* the keys of fontCounts in insertion order
FontKeys(all, seen) ==
  IF all = <<>> THEN seen
  ELSE FontKeys(Tail(all),
                IF \E k \in DOMAIN seen : seen[k] = Head(all).fontName
                THEN seen ELSE Append(seen, Head(all).fontName))

\* fontCounts[name]
FontCount(all, name) == Cardinality({i \in DOMAIN all : all[i].fontName = name})

\* the value of an absent sortedFonts[0]?.[0]
Undefined == <<"undefined">>

\* mutant: among the keys of maximal count the one inserted last
RegularFontLastSeen(all) ==
  LET keys == FontKeys(all, <<>>)
      best == {k \in DOMAIN keys :
                 /\ \A j \in DOMAIN keys : FontCount(all, keys[j]) <= FontCount(all, keys[k])
                 /\ \A j \in (k + 1)..Len(keys) : FontCount(all, keys[j]) < FontCount(all, keys[k])}
  IN IF keys = <<>> THEN Undefined ELSE keys[CHOOSE k \in best : TRUE]

\* sortedFonts[0]?.[0]: the stable sort by descending count puts first the
\* earliest key among those of maximal count
RegularFont(all) ==
  LET keys == FontKeys(all, <<>>)
      best == {k \in DOMAIN keys :
                 /\ \A j \in DOMAIN keys : FontCount(all, keys[j]) <= FontCount(all, keys[k])
                 /\ \A j \in 1..(k - 1) : FontCount(all, keys[j]) < FontCount(all, keys[k])}
  IN IF keys = <<>> THEN Undefined ELSE keys[CHOOSE k \in best : TRUE]

\* ------------------------------------------------------------------------
\* Pass 2: annotation, line assembly and rendering of one page
\* ------------------------------------------------------------------------

UpperSeq == <<"A", "B", "C", "D", "E", "F", "G", "H", "I", "J", "K", "L", "M",
              "N", "O", "P", "Q", "R", "S", "T", "U", "V", "W", "X", "Y", "Z">>

LowerSeq == <<"a", "b", "c", "d", "e", "f", "g", "h", "i", "j", "k", "l", "m",
              "n", "o", "p", "q", "r", "s", "t", "u", "v", "w", "x", "y", "z">>

\* String.prototype.toLowerCase
ToLower(s) ==
  [i \in DOMAIN s |->
     IF s[i] \in UpperAZ THEN LowerSeq[CHOOSE k \in DOMAIN UpperSeq : UpperSeq[k] = s[i]]
     ELSE s[i]]

\* String.prototype.includes
Includes(s, sub) ==
  \E from \in 0..(Len(s) - Len(sub)) : SubSeq(s, from + 1, from + Len(sub)) = sub

\* mutant: every font other than the regular one, the empty name included
IsBoldAnyOtherName(fontName, regularFont) ==
  \/ Includes(ToLower(fontName), <<"b", "o", "l", "d">>)
  \/ Includes(ToLower(fontName), <<"h", "e", "a", "v", "y">>)
  \/ Includes(ToLower(fontName), <<"b", "l", "a", "c", "k">>)
  \/ fontName # regularFont

\* const isBold = ...
IsBold(fontName, regularFont) ==
  \/ Includes(ToLower(fontName), <<"b", "o", "l", "d">>)
  \/ Includes(ToLower(fontName), <<"h", "e", "a", "v", "y">>)
  \/ Includes(ToLower(fontName), <<"b", "l", "a", "c", "k">>)
  \/ (fontName # regularFont /\ fontName # <<>>)

\* /^\d+$/
ReAllDigits == <<Bos, Plus(In(Digit)), Eos>>

\* the font size below which an all-digit run is a citation
CitationFontSize == 10

\* mutant: the threshold included
IsCitationAtThreshold(str, fontSize) ==
  Test(ReAllDigits, Trim(str)) /\ fontSize <= CitationFontSize

\* const isCitation = /^\d+$/.test(textTrimmed) && fontSize < 10
IsCitation(str, fontSize) ==
  Test(ReAllDigits, Trim(str)) /\ fontSize < CitationFontSize

\* the record pushed on lines[y]; idx (the item's place in textContent.items)
\* is kept to tell the runs apart
Annotate(item, idx, regularFont) ==
  [text |-> item.str, x |-> item.tx,
   isBold |-> IsBold(item.fontName, regularFont),
   isCitation |-> IsCitation(item.str, Abs(item.ts)),
   fontSize |-> Abs(item.ts), fontName |-> item.fontName, idx |-> idx]

RECURSIVE LineKeys(_, _)
\* the keys of the lines object, in order of first insertion
LineKeys(items, seen) ==
  IF items = <<>> THEN seen
  ELSE LineKeys(Tail(items),
                IF \E k \in DOMAIN seen : seen[k] = Round(Head(items).ty)
                THEN seen ELSE Append(seen, Round(Head(items).ty)))

RECURSIVE BucketFloor(_, _, _, _)
\* mutant: a run is looked up under the floor of its ordinate
BucketFloor(items, y, idx, regularFont) ==
  IF idx > Len(items) THEN <<>>
  ELSE (IF items[idx].ty \div 2 = y THEN <<Annotate(items[idx], idx, regularFont)>> ELSE <<>>)
       \o BucketFloor(items, y, idx + 1, regularFont)

RECURSIVE Bucket(_, _, _, _)
\* lines[y]: the annotated items of rounded ordinate y, in input order
Bucket(items, y, idx, regularFont) ==
  IF idx > Len(items) THEN <<>>
  ELSE (IF Round(items[idx].ty) = y THEN <<Annotate(items[idx], idx, regularFont)>> ELSE <<>>)
       \o Bucket(items, y, idx + 1, regularFont)

RECURSIVE InsertDesc(_, _)
InsertDesc(sorted, y) ==
  IF sorted = <<>> THEN <<y>>
  ELSE IF Head(sorted) - y < 0 THEN <<y>> \o sorted
  ELSE <<Head(sorted)>> \o InsertDesc(Tail(sorted), y)

RECURSIVE SortDesc(_)
\* .sort((a, b) => b - a)
SortDesc(ys) ==
  IF ys = <<>> THEN <<>> ELSE InsertDesc(SortDesc(SubSeq(ys, 1, Len(ys) - 1)), ys[Len(ys)])

RECURSIVE InsertByXUnstable(_, _)
\* mutant: the new run goes before the runs of equal x
InsertByXUnstable(sorted, r) ==
  IF sorted = <<>> THEN <<r>>
  ELSE IF Head(sorted).x - r.x >= 0 THEN <<r>> \o sorted
  ELSE <<Head(sorted)>> \o InsertByXUnstable(Tail(sorted), r)

RECURSIVE InsertByX(_, _)
\* a stable insertion: the new run goes after every run whose x is not larger
InsertByX(sorted, r) ==
  IF sorted = <<>> THEN <<r>>
  ELSE IF Head(sorted).x - r.x > 0 THEN <<r>> \o sorted
  ELSE <<Head(sorted)>> \o InsertByX(Tail(sorted), r)

RECURSIVE SortByX(_)
\* lines[y].sort((a, b) => a.x - b.x), a stable sort
SortByX(rs) ==
  IF rs = <<>> THEN <<>> ELSE InsertByX(SortByX(SubSeq(rs, 1, Len(rs) - 1)), rs[Len(rs)])

\* the lines of a page as sortedYs.forEach visits them: y and lineItems
PageLines(items, regularFont) ==
  LET sortedYs == SortDesc(LineKeys(items, <<>>))
  IN [k \in DOMAIN sortedYs |->
        [y |-> sortedYs[k], items |-> SortByX(Bucket(items, sortedYs[k], 1, regularFont))]]

RECURSIVE LineTextMerged(_)
\* mutant: a bold run that follows a bold run continues its span
LineTextMerged(lineItems) ==
  IF lineItems = <<>> THEN <<>>
  ELSE LET r == Head(lineItems)
           rest == Tail(lineItems)
           joins == rest # <<>> /\ Head(rest).isBold /\ ~Head(rest).isCitation
           tail == LineTextMerged(rest)
       IN IF r.isCitation THEN tail
          ELSE IF r.isBold
          THEN <<"*", "*">> \o r.text
               \o (IF joins THEN SubSeq(tail, 3, Len(tail)) ELSE <<"*", "*">> \o tail)
          ELSE r.text \o tail

RECURSIVE LineText(_)
\* lineItems.forEach: a citation adds nothing, a bold run is wrapped
LineText(lineItems) ==
  IF lineItems = <<>> THEN <<>>
  ELSE (IF Head(lineItems).isCitation THEN <<>>
        ELSE IF Head(lineItems).isBold THEN <<"*", "*">> \o Head(lineItems).text \o <<"*", "*">>
        ELSE Head(lineItems).text)
       \o LineText(Tail(lineItems))

RECURSIVE PageTextKeepAll(_)
\* mutant: every line is followed by a newline, an empty one too
PageTextKeepAll(plines) ==
  IF plines = <<>> THEN <<>>
  ELSE LineText(Head(plines).items) \o <<"\n">> \o PageTextKeepAll(Tail(plines))

RECURSIVE PageText(_)
\* pageText: every line that does not trim to empty, followed by a newline
PageText(plines) ==
  IF plines = <<>> THEN <<>>
  ELSE (IF Trim(LineText(Head(plines).items)) # <<>>
        THEN LineText(Head(plines).items) \o <<"\n">> ELSE <<>>)
       \o PageText(Tail(plines))

\* ------------------------------------------------------------------------
\* The block segmenter (formatAsMarkdown)
\* ------------------------------------------------------------------------

\* '.', any character but a line terminator
Dot == NotIn(LineTerminator)

\* /\.pdf$/i
RePdfExt == <<Lit("."), In({"p", "P"}), In({"d", "D"}), In({"f", "F"}), Eos>>

\* String.prototype.replace with a regular expression without the g flag
ReplaceFirst(re, s, rep) ==
  LET ms == FindAll(re, s, 0)
  IN IF ms = <<>> THEN s ELSE Splice(s, <<ms[1]>>, <<rep>>, 1, 0)

\* `# ${fileName.replace(/\.pdf$/i, '')}\n\n`
Heading(fileName) == <<"#", " ">> \o ReplaceFirst(RePdfExt, fileName, <<>>) \o <<"\n", "\n">>

\* new RegExp(`^${bulletChars}$`)
ReBulletOnly == <<Bos, In(BulletChars), Eos>>

\* /^([bullets]+|[-–—])\s+(.+)/, one sequence per alternative
ReBulletMatch == << <<Bos, Plus(In(BulletChars)), Plus(In(WS)), Plus(Dot)>>,
                    <<Bos, In(DashChars), Plus(In(WS)), Plus(Dot)>> >>

\* mutant: the numbering marker must end in '.'
ReNumberedMatchDotOnly == << <<Bos, Plus(In(Digit)), Lit("."), Plus(In(WS)), Plus(Dot)>>,
                             <<Bos, In(LowerAZ \cup UpperAZ), Lit("."), Plus(In(WS)), Plus(Dot)>>,
                             <<Bos, Plus(In(RomanChars)), Lit("."), Plus(In(WS)), Plus(Dot)>> >>

\* /^(\d+[\.\)]\s+|[a-z][\.\)]\s+|[ivxlcdm]+[\.\)]\s+)(.+)/i, one sequence per alternative
ReNumberedMatch == << <<Bos, Plus(In(Digit)), In({".", ")"}), Plus(In(WS)), Plus(Dot)>>,
                      <<Bos, In(LowerAZ \cup UpperAZ), In({".", ")"}), Plus(In(WS)), Plus(Dot)>>,
                      <<Bos, Plus(In(RomanChars)), In({".", ")"}), Plus(In(WS)), Plus(Dot)>> >>

RECURSIVE MatchAlt(_, _, _)
\* String.prototype.match of an anchored alternation: the first alternative
\* that matches, or NoMatch
MatchAlt(alts, k, s) ==
  IF k > Len(alts) THEN NoMatch
  ELSE LET m == MatchItems(alts[k], 1, s, 0)
       IN IF m # NoMatch THEN m ELSE MatchAlt(alts, k + 1, s)

\* the last group of a match of ReBulletMatch or ReNumberedMatch: (.+)
LastGroup(s, m) == SubSeq(s, m[Len(m) - 1] + 1, m[Len(m)])

\* mutant: a list item written with the marker '*'
BulletItemStar(text) == <<"*", " ">> \o text \o <<"\n">>

\* `- ${text}\n`
BulletItem(text) == <<"-", " ">> \o text \o <<"\n">>

\* `1. ${text}\n`
NumberedItem(text) == <<"1", ".", " ">> \o text \o <<"\n">>

\* mutant: the list is closed without the separator line
CloseListNoSeparator(st) == [markdown |-> st.markdown, inList |-> FALSE]

\* the 'if (inList) { markdown += "\n"; inList = false; }' before a paragraph
CloseList(st) == IF st.inList THEN [markdown |-> st.markdown \o <<"\n">>, inList |-> FALSE] ELSE st

RECURSIVE BulletLoop(_, _, _, _)
\* the for loop over the parts of a line holding a bullet glyph, from the part
\* of (1-based) index k on, and the output of the remaining text after it
BulletLoop(parts, k, currentText, st) ==
  IF k > Len(parts)
  THEN IF Trim(currentText) # <<>>
       THEN [markdown |-> CloseList(st).markdown \o Trim(currentText) \o <<"\n">>, inList |-> FALSE]
       ELSE st
  ELSE LET part == Trim(parts[k])
       IN IF part = <<>> THEN BulletLoop(parts, k + 1, currentText, st)
          ELSE IF Test(ReBulletOnly, part)
          THEN LET st1 == IF currentText # <<>>
                          THEN [markdown |-> CloseList(st).markdown \o currentText \o <<"\n">>,
                                inList |-> FALSE]
                          ELSE st
                   hasNext == k + 1 <= Len(parts) /\ Trim(parts[k + 1]) # <<>>
               IN IF hasNext
                  THEN BulletLoop(parts, k + 2, <<>>,
                                  [markdown |-> st1.markdown \o BulletItem(Trim(parts[k + 1])),
                                   inList |-> TRUE])
                  ELSE BulletLoop(parts, k + 1, <<>>, st1)
          ELSE IF k = 1 \/ parts[k - 1] = <<>> \/ ~Test(ReBulletOnly, Trim(parts[k - 1]))
          THEN BulletLoop(parts, k + 1, currentText \o part \o <<" ">>, st)
          ELSE BulletLoop(parts, k + 1, currentText, st)

\* mutant: a blank line leaves inList as it is
FormatLineBlankKeepsList(line, st) ==
  LET trimmed == Trim(line)
      bulletMatch == MatchAlt(ReBulletMatch, 1, trimmed)
      numberedMatch == MatchAlt(ReNumberedMatch, 1, trimmed)
  IN IF trimmed = <<>>
     THEN [markdown |-> CloseList(st).markdown \o <<"\n">>, inList |-> st.inList]
     ELSE IF Test(<<In(BulletChars)>>, trimmed)
     THEN BulletLoop(SplitKeep(trimmed, BulletChars, <<>>), 1, <<>>, st)
     ELSE IF bulletMatch # NoMatch
     THEN [markdown |-> st.markdown \o BulletItem(LastGroup(trimmed, bulletMatch)),
           inList |-> TRUE]
     ELSE IF numberedMatch # NoMatch
     THEN [markdown |-> st.markdown \o NumberedItem(LastGroup(trimmed, numberedMatch)),
           inList |-> TRUE]
     ELSE [markdown |-> CloseList(st).markdown \o trimmed \o <<"\n">>, inList |-> FALSE]

\* the body of lines.forEach for one line: st is [markdown, inList]
FormatLine(line, st) ==
  LET trimmed == Trim(line)
      bulletMatch == MatchAlt(ReBulletMatch, 1, trimmed)
      numberedMatch == MatchAlt(ReNumberedMatch, 1, trimmed)
  IN IF trimmed = <<>>
     THEN [markdown |-> CloseList(st).markdown \o <<"\n">>, inList |-> FALSE]
     ELSE IF Test(<<In(BulletChars)>>, trimmed)
     THEN BulletLoop(SplitKeep(trimmed, BulletChars, <<>>), 1, <<>>, st)
     ELSE IF bulletMatch # NoMatch
     THEN [markdown |-> st.markdown \o BulletItem(LastGroup(trimmed, bulletMatch)),
           inList |-> TRUE]
     ELSE IF numberedMatch # NoMatch
     THEN [markdown |-> st.markdown \o NumberedItem(LastGroup(trimmed, numberedMatch)),
           inList |-> TRUE]
     ELSE [markdown |-> CloseList(st).markdown \o trimmed \o <<"\n">>, inList |-> FALSE]

RECURSIVE FormatLines(_, _, _)
\* lines.forEach from line k on
FormatLines(lines, k, st) ==
  IF k > Len(lines) THEN st ELSE FormatLines(lines, k + 1, FormatLine(lines[k], st))

\* /\n{4,}/g
ReNewlines == <<AtLeast(4, Lit("\n"))>>

\* markdown.replace(/\n{4,}/g, '\n\n')
CollapseNewlines(s) ==
  LET ms == FindAll(ReNewlines, s, 0)
  IN Splice(s, ms, [k \in DOMAIN ms |-> <<"\n", "\n">>], 1, 0)

\* formatAsMarkdown(text, fileName)
FormatAsMarkdown(text, fileName) ==
  CollapseNewlines(FormatLines(SplitOn(text, {"\n"}, <<>>), 1,
                               [markdown |-> Heading(fileName), inList |-> FALSE]).markdown)

\* ------------------------------------------------------------------------
\* The post-processing passes of convertPdfToMarkdown
\* ------------------------------------------------------------------------

Star2 == <<Lit("*"), Lit("*")>>

\* /\s+\d+\s*$/gm
ReEndCitation == <<Plus(In(WS)), Plus(In(Digit)), Star(In(WS)), EolM>>

\* /\s+\d+\s+/g
ReMidNumber == <<Plus(In(WS)), Plus(In(Digit)), Plus(In(WS))>>

\* /\.\s*\d+\s/g
ReAfterPeriod == <<Lit("."), Star(In(WS)), Plus(In(Digit)), In(WS)>>

\* /\*\*([^*\n]+)\*\*\s?\*\*([^*\n]+)\*\*/g
ReBoldPair == Star2 \o <<Plus(NotIn({"*", "\n"}))>> \o Star2 \o <<Opt(In(WS))>>
              \o Star2 \o <<Plus(NotIn({"*", "\n"}))>> \o Star2

\* /(\S)\s+\*\*/g
ReSpaceBeforeMarker == <<NotIn(WS), Plus(In(WS))>> \o Star2

\* /\*\*\s*([^*]+?)\s*\*\*/g
ReBoldSpan == Star2 \o <<Star(In(WS)), Lazy(Plus(NotIn({"*"}))), Star(In(WS))>> \o Star2

\* /\*\*\*\*/g
ReFourStars == Star2 \o Star2

\* /\*\*\s*\*\*/g
ReEmptyBold == Star2 \o <<Star(In(WS))>> \o Star2

\* /([^\s\n*])(\*\*[^\s*])/g
ReOpenNoSpace == <<NotIn(WS \cup {"\n", "*"})>> \o Star2 \o <<NotIn(WS \cup {"*"})>>

\* /([^\s*]\*\*)([^\s*.,;:!?)\]\n])/g
ReCloseNoSpace == <<NotIn(WS \cup {"*"})>> \o Star2 \o <<NotIn(WS \cup {"*"} \cup ClosePunct)>>

\* /  +/g
ReSpaces == <<Lit(" "), Plus(Lit(" "))>>

\* markdown.replace(/\s+\d+\s*$/gm, '')
StripEndCitations(s) ==
  LET ms == FindAll(ReEndCitation, s, 0)
  IN Splice(s, ms, [k \in DOMAIN ms |-> <<>>], 1, 0)

\* markdown.replace(/\s+\d+\s+/g, ' ')
StripMidNumbers(s) ==
  LET ms == FindAll(ReMidNumber, s, 0)
  IN Splice(s, ms, [k \in DOMAIN ms |-> <<" ">>], 1, 0)

\* markdown.replace(/\.\s*\d+\s/g, '. ')
StripAfterPeriod(s) ==
  LET ms == FindAll(ReAfterPeriod, s, 0)
  IN Splice(s, ms, [k \in DOMAIN ms |-> <<".", " ">>], 1, 0)

\* mutant: only the first pair of a line is merged (the g flag dropped)
MergeOnceFirst(s) ==
  LET ms == FindAll(ReBoldPair, s, 0)
  IN IF ms = <<>> THEN s
     ELSE Splice(s, <<ms[1]>>,
                 << <<"*", "*">> \o Group(s, ms[1], 3, 3) \o <<"*", "*">> \o Group(s, ms[1], 9, 9) \o <<"*", "*">> >>,
                 1, 0)

\* cleaned.replace(/\*\*([^*\n]+)\*\*\s?\*\*([^*\n]+)\*\*/g, '**$1 $2**')
MergeOnce(s) ==
  LET ms == FindAll(ReBoldPair, s, 0)
  IN Splice(s, ms,
            [k \in DOMAIN ms |->
               <<"*", "*">> \o Group(s, ms[k], 3, 3) \o <<" ">> \o Group(s, ms[k], 9, 9) \o <<"*", "*">>],
            1, 0)

\* the bound of the merge loop: for (let i = 0; i < 10; i++)
MergeIterations == 10

RECURSIVE MergeLoop(_, _)
\* the merge loop on one line, from iteration i on
MergeLoop(cleaned, i) ==
  IF i >= MergeIterations THEN cleaned
  ELSE IF MergeOnce(cleaned) = cleaned THEN cleaned
  ELSE MergeLoop(MergeOnce(cleaned), i + 1)

\* markdown.split('\n').map(line => ...).join('\n')
MergeBold(s) ==
  LET lines == SplitOn(s, {"\n"}, <<>>)
  IN Join([k \in DOMAIN lines |-> MergeLoop(lines[k], 0)], <<"\n">>)

\* markdown.replace(/(\S)\s+\*\*/g, '$1** ')
MoveSpaceOutside(s) ==
  LET ms == FindAll(ReSpaceBeforeMarker, s, 0)
  IN Splice(s, ms, [k \in DOMAIN ms |-> Group(s, ms[k], 1, 1) \o <<"*", "*", " ">>], 1, 0)

\* markdown.replace(/\*\*\s*([^*]+?)\s*\*\*/g, (match, content) => ...)
TrimBoldSpans(s) ==
  LET ms == FindAll(ReBoldSpan, s, 0)
  IN Splice(s, ms,
            [k \in DOMAIN ms |->
               IF Trim(Group(s, ms[k], 4, 4)) # <<>>
               THEN <<"*", "*">> \o Trim(Group(s, ms[k], 4, 4)) \o <<"*", "*">>
               ELSE <<>>],
            1, 0)

\* markdown.replace(/\*\*\*\*/g, '')
RemoveFourStars(s) ==
  LET ms == FindAll(ReFourStars, s, 0)
  IN Splice(s, ms, [k \in DOMAIN ms |-> <<>>], 1, 0)

\* markdown.replace(/\*\*\s*\*\*/g, '')
RemoveEmptyBold(s) ==
  LET ms == FindAll(ReEmptyBold, s, 0)
  IN Splice(s, ms, [k \in DOMAIN ms |-> <<>>], 1, 0)

\* markdown.replace(/([^\s\n*])(\*\*[^\s*])/g, '$1 $2')
SpaceBeforeOpen(s) ==
  LET ms == FindAll(ReOpenNoSpace, s, 0)
  IN Splice(s, ms, [k \in DOMAIN ms |-> Group(s, ms[k], 1, 1) \o <<" ">> \o Group(s, ms[k], 2, 4)], 1, 0)

\* markdown.replace(/([^\s*]\*\*)([^\s*.,;:!?)\]\n])/g, '$1 $2')
SpaceAfterClose(s) ==
  LET ms == FindAll(ReCloseNoSpace, s, 0)
  IN Splice(s, ms, [k \in DOMAIN ms |-> Group(s, ms[k], 1, 3) \o <<" ">> \o Group(s, ms[k], 4, 4)], 1, 0)

\* markdown.replace(/  +/g, ' ')
CollapseSpaces(s) ==
  LET ms == FindAll(ReSpaces, s, 0)
  IN Splice(s, ms, [k \in DOMAIN ms |-> <<" ">>], 1, 0)

\* the post-processing statements in source order
PassNames == <<"StripEndCitations", "StripMidNumbers", "StripAfterPeriod", "MergeBold",
               "MoveSpaceOutside", "TrimBoldSpans", "RemoveFourStars", "RemoveEmptyBold",
               "SpaceBeforeOpen", "SpaceAfterClose", "CollapseSpaces">>

\* the effect of the k-th post-processing statement
ApplyPass(k, s) ==
  CASE PassNames[k] = "StripEndCitations" -> StripEndCitations(s)
    [] PassNames[k] = "StripMidNumbers" -> StripMidNumbers(s)
    [] PassNames[k] = "StripAfterPeriod" -> StripAfterPeriod(s)
    [] PassNames[k] = "MergeBold" -> MergeBold(s)
    [] PassNames[k] = "MoveSpaceOutside" -> MoveSpaceOutside(s)
    [] PassNames[k] = "TrimBoldSpans" -> TrimBoldSpans(s)
    [] PassNames[k] = "RemoveFourStars" -> RemoveFourStars(s)
    [] PassNames[k] = "RemoveEmptyBold" -> RemoveEmptyBold(s)
    [] PassNames[k] = "SpaceBeforeOpen" -> SpaceBeforeOpen(s)
    [] PassNames[k] = "SpaceAfterClose" -> SpaceAfterClose(s)
    [] PassNames[k] = "CollapseSpaces" -> CollapseSpaces(s)

RECURSIVE ApplyPasses(_, _)
\* the statements k.. applied in order
ApplyPasses(k, s) ==
  IF k > Len(PassNames) THEN s ELSE ApplyPasses(k + 1, ApplyPass(k, s))

\* the whole post-processing of convertPdfToMarkdown
Normalize(s) == ApplyPasses(1, s)

\* ------------------------------------------------------------------------
\* The conversion as a state machine: one call of convertPdfToMarkdown(file)
\* ------------------------------------------------------------------------

VARIABLES pc,          \* the position in convertPdfToMarkdown / formatAsMarkdown
          file,        \* the argument: its name and, per page, the text items
          numPages,    \* pdf.numPages
          pageNum,     \* the loop variable of both page loops
          allItems,    \* pass 1: fontName and fontSize of every item
          regularFont, \* sortedFonts[0]?.[0]
          plines,      \* pass 2: the lines of the page rendered last
          fullText,    \* pass 2: the text of the pages rendered so far
          textLines,   \* formatAsMarkdown: text.split('\n')
          lineIdx,     \* formatAsMarkdown: the line lines.forEach visits next
          markdown,    \* the Markdown built so far
          inList,      \* formatAsMarkdown: the list flag
          passIdx,     \* the post-processing statement to run next
          thrown,      \* the error the try block threw, if any
          result,      \* the value the call returned
          mlines,      \* the merge statement: markdown.split('\n'), mapped so far
          mIdx,        \* the merge statement: the line the map callback is at
          cleaned,     \* the merge loop on one line: its text
          iter,        \* the merge loop on one line: iterations run
          app,         \* the state of the App component that called readFile
          other        \* the locals of a second call suspended at an await, if any

vars == <<pc, file, numPages, pageNum, allItems, regularFont, plines, fullText,
          textLines, lineIdx, markdown, inList, passIdx, thrown, result, cleaned, iter, mlines, mIdx, app, other>>

NoError == [by |-> "none", message |-> ""]

NoResult == [pending |-> TRUE]

\* new Error('No text content found in PDF')
EmptyMessage == "No text content found in PDF"

\* the text returned for an error without a message
DefaultMessage == "Failed to convert PDF to markdown"

\* the App component before readFile is called
NoApp == [pc |-> "none"]

\* no second call
NoOther == [pc |-> "none"]

\* the locals of a call convertPdfToMarkdown(f) that is at position p
LocalsAt(f, p) ==
  /\ pc = p
  /\ file = f
  /\ numPages = 0
  /\ pageNum = 0
  /\ allItems = <<>>
  /\ regularFont = Undefined
  /\ plines = <<>>
  /\ fullText = <<>>
  /\ textLines = <<>>
  /\ lineIdx = 0
  /\ markdown = <<>>
  /\ inList = FALSE
  /\ passIdx = 0
  /\ thrown = NoError
  /\ result = NoResult
  /\ mlines = <<>>
  /\ mIdx = 0
  /\ cleaned = <<>>
  /\ iter = 0

\* a call convertPdfToMarkdown(f) with no caller and no second call modelled
Start(f) ==
  /\ app = NoApp
  /\ other = NoOther
  /\ LocalsAt(f, "open")

\* the messages of the errors the extraction library throws in the model
ExtractionMessages == {"Invalid PDF structure", ""}

\* await file.arrayBuffer(); await pdfjsLib.getDocument(...).promise succeed
Open ==
  /\ pc = "open"
  /\ numPages' = Len(file.pages)
  /\ fullText' = <<>>
  /\ allItems' = <<>>
  /\ pageNum' = 1
  /\ pc' = "pass1"
  /\ UNCHANGED <<file, regularFont, plines, textLines, lineIdx, markdown, inList,
                 passIdx, thrown, result, cleaned, iter, mlines, mIdx, app, other>>

\* one of them rejects
OpenFail ==
  /\ pc = "open"
  /\ \E msg \in ExtractionMessages : thrown' = [by |-> "collaborator", message |-> msg]
  /\ pc' = "catch"
  /\ UNCHANGED <<file, numPages, pageNum, allItems, regularFont, plines, fullText,
                 textLines, lineIdx, markdown, inList, passIdx, result, cleaned, iter, mlines, mIdx, app, other>>

\* first pass, one page: getPage, getTextContent, allItems.push
Pass1Page ==
  /\ pc = "pass1"
  /\ pageNum <= numPages
  /\ allItems' = allItems \o FontItems(file.pages[pageNum])
  /\ pageNum' = pageNum + 1
  /\ UNCHANGED <<pc, file, numPages, regularFont, plines, fullText, textLines, lineIdx,
                 markdown, inList, passIdx, thrown, result, cleaned, iter, mlines, mIdx, app, other>>

\* getPage or getTextContent rejects, in either pass
PageFail ==
  /\ pc \in {"pass1", "pass2"}
  /\ pageNum <= numPages
  /\ \E msg \in ExtractionMessages : thrown' = [by |-> "collaborator", message |-> msg]
  /\ pc' = "catch"
  /\ UNCHANGED <<file, numPages, pageNum, allItems, regularFont, plines, fullText,
                 textLines, lineIdx, markdown, inList, passIdx, result, cleaned, iter, mlines, mIdx, app, other>>

\* after the first loop: fontCounts, sortedFonts, regularFont
Classify ==
  /\ pc = "pass1"
  /\ pageNum > numPages
  /\ regularFont' = RegularFont(allItems)
  /\ pageNum' = 1
  /\ pc' = "pass2"
  /\ UNCHANGED <<file, numPages, allItems, plines, fullText, textLines, lineIdx,
                 markdown, inList, passIdx, thrown, result, cleaned, iter, mlines, mIdx, app, other>>

\* mutant: the page text put before the text of the pages rendered earlier
PrependPage(text, n, pageText) ==
  pageText \o (IF n > 1 THEN <<"\n", "\n">> ELSE <<>>) \o text

\* if (pageNum > 1) fullText += '\n\n'; fullText += pageText
AppendPage(text, n, pageText) ==
  text \o (IF n > 1 THEN <<"\n", "\n">> ELSE <<>>) \o pageText

\* second pass, one page: group by line, sort, render, append to fullText
Pass2Page ==
  /\ pc = "pass2"
  /\ pageNum <= numPages
  /\ plines' = PageLines(file.pages[pageNum], regularFont)
  /\ fullText' = AppendPage(fullText, pageNum, PageText(plines'))
  /\ pageNum' = pageNum + 1
  /\ UNCHANGED <<pc, file, numPages, allItems, regularFont, textLines, lineIdx,
                 markdown, inList, passIdx, thrown, result, cleaned, iter, mlines, mIdx, app, other>>

\* mutant: the emptiness test without trim()
IsEmptyContentNoTrim(text) == text = <<>>

\* !fullText.trim()
IsEmptyContent(text) == Trim(text) = <<>>

\* after the second loop: if (!fullText.trim()) throw new Error(...)
CheckEmpty ==
  /\ pc = "pass2"
  /\ pageNum > numPages
  /\ IF IsEmptyContent(fullText)
     THEN thrown' = [by |-> "engine", message |-> EmptyMessage] /\ pc' = "catch"
     ELSE thrown' = thrown /\ pc' = "format"
  /\ UNCHANGED <<file, numPages, pageNum, allItems, regularFont, plines, fullText,
                 textLines, lineIdx, markdown, inList, passIdx, result, cleaned, iter, mlines, mIdx, app, other>>

\* formatAsMarkdown is entered: the heading, text.split('\n'), inList = false
StartFormat ==
  /\ pc = "format"
  /\ markdown' = Heading(file.name)
  /\ textLines' = SplitOn(fullText, {"\n"}, <<>>)
  /\ inList' = FALSE
  /\ lineIdx' = 1
  /\ pc' = "lines"
  /\ UNCHANGED <<file, numPages, pageNum, allItems, regularFont, plines, fullText,
                 passIdx, thrown, result, cleaned, iter, mlines, mIdx, app, other>>

\* lines.forEach, one line
FormatNext ==
  /\ pc = "lines"
  /\ lineIdx <= Len(textLines)
  /\ LET st == FormatLine(textLines[lineIdx], [markdown |-> markdown, inList |-> inList])
     IN markdown' = st.markdown /\ inList' = st.inList
  /\ lineIdx' = lineIdx + 1
  /\ UNCHANGED <<pc, file, numPages, pageNum, allItems, regularFont, plines, fullText,
                 textLines, passIdx, thrown, result, cleaned, iter, mlines, mIdx, app, other>>

\* formatAsMarkdown returns: the newline clean-up
FinishFormat ==
  /\ pc = "lines"
  /\ lineIdx > Len(textLines)
  /\ markdown' = CollapseNewlines(markdown)
  /\ passIdx' = 1
  /\ pc' = "normalize"
  /\ UNCHANGED <<file, numPages, pageNum, allItems, regularFont, plines, fullText,
                 textLines, lineIdx, inList, thrown, result, cleaned, iter, mlines, mIdx, app, other>>

\* one post-processing statement other than the merge of bold spans
NormalizeStep ==
  /\ pc = "normalize"
  /\ passIdx <= Len(PassNames)
  /\ PassNames[passIdx] # "MergeBold"
  /\ markdown' = ApplyPass(passIdx, markdown)
  /\ passIdx' = passIdx + 1
  /\ UNCHANGED <<pc, file, numPages, pageNum, allItems, regularFont, plines, fullText,
                 textLines, lineIdx, inList, thrown, result, cleaned, iter, mlines, mIdx, app, other>>

\* the merge statement starts: markdown.split('\n'), the callback enters the first line
MergeStart ==
  /\ pc = "normalize"
  /\ passIdx <= Len(PassNames)
  /\ PassNames[passIdx] = "MergeBold"
  /\ mlines' = SplitOn(markdown, {"\n"}, <<>>)
  /\ mIdx' = 1
  /\ cleaned' = mlines'[1]
  /\ iter' = 0
  /\ pc' = "merge"
  /\ UNCHANGED <<file, numPages, pageNum, allItems, regularFont, plines, fullText,
                 textLines, lineIdx, markdown, inList, passIdx, thrown, result, app, other>>

\* one iteration of 'for (let i = 0; i < 10; i++)': the replace, and the
\* break when it changed nothing; iter counts the iterations run
MergeIter ==
  /\ pc = "merge"
  /\ iter < MergeIterations
  /\ cleaned' = MergeOnce(cleaned)
  /\ iter' = iter + 1
  /\ pc' = IF cleaned' = cleaned \/ iter' >= MergeIterations THEN "mergeReturn" ELSE "merge"
  /\ UNCHANGED <<file, numPages, pageNum, allItems, regularFont, plines, fullText,
                 textLines, lineIdx, markdown, inList, passIdx, thrown, result, mlines, mIdx, app, other>>

\* the callback returns cleaned; map goes to the next line, or join('\n') ends the statement
MergeReturn ==
  /\ pc = "mergeReturn"
  /\ mlines' = [mlines EXCEPT ![mIdx] = cleaned]
  /\ IF mIdx < Len(mlines)
     THEN /\ mIdx' = mIdx + 1
          /\ cleaned' = mlines[mIdx + 1]
          /\ iter' = 0
          /\ pc' = "merge"
          /\ UNCHANGED <<markdown, passIdx>>
     ELSE /\ markdown' = Join(mlines', <<"\n">>)
          /\ passIdx' = passIdx + 1
          /\ pc' = "normalize"
          /\ UNCHANGED <<mIdx, cleaned, iter>>
  /\ UNCHANGED <<file, numPages, pageNum, allItems, regularFont, plines, fullText,
                 textLines, lineIdx, inList, thrown, result, app, other>>

\* mutant: the extension replaced without the i flag
RenamedNameCaseSensitive(fileName) ==
  ReplaceFirst(<<Lit("."), Lit("p"), Lit("d"), Lit("f"), Eos>>, fileName, <<".", "m", "d">>)

\* file.name.replace(/\.pdf$/i, '.md')
RenamedName(fileName) == ReplaceFirst(RePdfExt, fileName, <<".", "m", "d">>)

\* return { success: true, markdown, originalName, pageCount, info }
Return ==
  /\ pc = "normalize"
  /\ passIdx > Len(PassNames)
  /\ result' = [success |-> TRUE, markdown |-> markdown,
                originalName |-> RenamedName(file.name),
                pageCount |-> numPages, info |-> [pages |-> numPages]]
  /\ pc' = "done"
  /\ UNCHANGED <<file, numPages, pageNum, allItems, regularFont, plines, fullText,
                 textLines, lineIdx, markdown, inList, passIdx, thrown, cleaned, iter, mlines, mIdx, app, other>>

\* mutant: the message of the error, also when it is empty
ErrorMessageAsThrown(error) == error.message

\* mutant: the fixed text whatever the error says
ErrorMessageFixed(error) == DefaultMessage

\* error.message || 'Failed to convert PDF to markdown'
ErrorMessage(error) == IF error.message # "" THEN error.message ELSE DefaultMessage

\* catch (error): return { success: false, error: error.message || ... }
Catch ==
  /\ pc = "catch"
  /\ result' = [success |-> FALSE, error |-> ErrorMessage(thrown)]
  /\ pc' = "done"
  /\ UNCHANGED <<file, numPages, pageNum, allItems, regularFont, plines, fullText,
                 textLines, lineIdx, markdown, inList, passIdx, thrown, cleaned, iter, mlines, mIdx, app, other>>

\* ------------------------------------------------------------------------
\* Inputs of the whole conversion: documents of a few pages
\* ------------------------------------------------------------------------

F1 == <<"F", "1">>

F2 == <<"F", "2">>

Glyph(str, tx, ty, ts, fontName) ==
  [str |-> str, tx |-> tx, ty |-> ty, ts |-> ts, fontName |-> fontName]

\* the pages a document of the model is made of
DocPages ==
  { <<>>,
    <<Glyph(<<" ">>, 0, 0, 12, F1)>>,
    <<Glyph(<<"1">>, 0, 0, 9, F1), Glyph(<<"2">>, 4, 20, 9, F2)>>,
    <<Glyph(<<"a">>, 0, 0, 12, F1)>>,
    <<Glyph(<<"1", " ", "b">>, 0, 0, 12, F1)>>,
    <<Glyph(<<"u2022", " ", "c">>, 0, 0, 12, F1), Glyph(<<"d">>, 0, 20, 12, F2)>> }

\* the file names of the model
FileNames ==
  { <<"a", ".", "p", "d", "f">>,
    <<"a", " ", "1", ".", "P", "D", "F">>,
    <<"b", ".", "p", "d", "f", "x">> }

\* the largest number of pages of a document
MaxPages == 2

RECURSIVE SeqsUpTo(_, _)
\* the sequences of at most n elements of S
SeqsUpTo(S, n) ==
  IF n = 0 THEN {<<>>}
  ELSE LET shorter == SeqsUpTo(S, n - 1)
       IN shorter \cup {Append(q, x) : q \in {r \in shorter : Len(r) = n - 1}, x \in S}

DocFiles == {[name |-> n, pages |-> d] : n \in FileNames, d \in SeqsUpTo(DocPages, MaxPages)}

Init == \E f \in DocFiles : Start(f)

Next ==
  \/ Open
  \/ OpenFail
  \/ Pass1Page
  \/ PageFail
  \/ Classify
  \/ Pass2Page
  \/ CheckEmpty
  \/ StartFormat
  \/ FormatNext
  \/ FinishFormat
  \/ NormalizeStep
  \/ MergeStart
  \/ MergeIter
  \/ MergeReturn
  \/ Return
  \/ Catch

Spec == Init /\ [][Next]_vars

\* ------------------------------------------------------------------------
\* Properties of the whole conversion
\* ------------------------------------------------------------------------

\* the name ends in ".pdf", in any letter case
HasPdfExt(name) ==
  Len(name) >= 4 /\ ToLower(SubSeq(name, Len(name) - 3, Len(name))) = <<".", "p", "d", "f">>

\* the name without that extension
Stem(name) == IF HasPdfExt(name) THEN SubSeq(name, 1, Len(name) - 4) ELSE name

RECURSIVE DocFontItems(_)
\* fontName and fontSize of every item of every page
DocFontItems(pages) ==
  IF pages = <<>> THEN <<>> ELSE FontItems(Head(pages)) \o DocFontItems(Tail(pages))

\* every rendered line of every page of the document trims to empty
AllLinesBlank ==
  \A p \in DOMAIN file.pages :
    LET ls == PageLines(file.pages[p], RegularFont(DocFontItems(file.pages)))
    IN \A k \in DOMAIN ls : Trim(LineText(ls[k].items)) = <<>>

\* C4: a document whose rendered lines all trim to empty (no page, blank
\* runs, citation runs only) never gives a successful result, and unless the
\* extraction library itself failed the result is the empty-content error.
C4_EmptyContentError ==
  (pc = "done" /\ AllLinesBlank) =>
    /\ ~result.success
    /\ thrown.by # "collaborator" => result.error = EmptyMessage

\* C4 witness: two pages, one of citation runs only, end in the empty-content error
C4_Witness ==
  /\ pc = "done"
  /\ AllLinesBlank
  /\ Len(file.pages) = 2
  /\ \E p \in DOMAIN file.pages : \E i \in DOMAIN file.pages[p] : file.pages[p][i].str = <<"1">>
  /\ result = [success |-> FALSE, error |-> EmptyMessage]

\* C9: the first line of the Markdown of a successful conversion is "# "
\* followed by the file name without its .pdf extension (so the body starts
\* on a later line).
C9_HeadingFirstLine ==
  (pc = "done" /\ result.success) =>
    SplitOn(result.markdown, {"\n"}, <<>>)[1] = <<"#", " ">> \o Stem(file.name)

\* C10: a successful conversion returns the page count the extraction library
\* reported and the file name with a trailing .pdf (any case) replaced by .md
C10_Metadata ==
  (pc = "done" /\ result.success) =>
    /\ result.pageCount = Len(file.pages)
    /\ result.originalName =
         IF HasPdfExt(file.name) THEN Stem(file.name) \o <<".", "m", "d">> ELSE file.name

\* C10 witness: a two-page document with an upper-case extension converted
C10_Witness ==
  /\ pc = "done"
  /\ result.success
  /\ file.name = <<"a", " ", "1", ".", "P", "D", "F">>
  /\ result.pageCount = 2
  /\ result.originalName = <<"a", " ", "1", ".", "m", "d">>

\* ------------------------------------------------------------------------
\* One page of runs through annotation and line assembly
\* ------------------------------------------------------------------------

\* text, transform[0] and font of the runs of the page model
RunKinds ==
  { [str |-> <<"1", "a">>, ts |-> 9, fontName |-> F1],
    [str |-> <<" ", "7", " ">>, ts |-> -9, fontName |-> F2],
    [str |-> <<"1", "2">>, ts |-> 10, fontName |-> F1] }

\* transform[4] of the runs of the page model
RunXs == {0, 3}

\* transform[5] of the runs of the page model, in half units: 0.5, 1 and 1.5
RunYs == {1, 2, 3}

PageGlyphs ==
  {Glyph(k.str, x, y, k.ts, k.fontName) : k \in RunKinds, x \in RunXs, y \in RunYs}

\* the largest number of runs of a page
MaxRuns == 3

PageFiles ==
  {[name |-> <<"a", ".", "p", "d", "f">>, pages |-> <<p>>] : p \in SeqsUpTo(PageGlyphs, MaxRuns)}

InitPage == \E f \in PageFiles : Start(f)

NextPage ==
  \/ Open
  \/ Pass1Page
  \/ Classify
  \/ Pass2Page

\* the conversion of a one-page document up to the end of the second pass
SpecPage == InitPage /\ [][NextPage]_vars

\* the runs of the lines of the page rendered last
\* C1: the lines of a page are visited in strictly descending order of their
\* rounded ordinate, every run lies in the line of its rounded ordinate, and
\* the runs of a line are in ascending order of raw x, runs of equal x in
\* input order.
C1_LineOrder ==
  /\ \A k \in DOMAIN plines : k > 1 => plines[k - 1].y > plines[k].y
  /\ \A k \in DOMAIN plines :
       LET rs == plines[k].items
       IN /\ rs # <<>>
          /\ \A i \in DOMAIN rs : Round(file.pages[pageNum - 1][rs[i].idx].ty) = plines[k].y
          /\ \A i, j \in DOMAIN rs :
               i < j => \/ rs[i].x < rs[j].x
                        \/ rs[i].x = rs[j].x /\ rs[i].idx < rs[j].idx

\* C1 witness: a page of two lines whose first input run lies in the lower
\* line, the upper line holding two runs of equal x in their input order
C1_Witness ==
  /\ Len(plines) = 2
  /\ plines[2].items[1].idx = 1
  /\ Len(plines[1].items) = 2
  /\ plines[1].items[1].x = plines[1].items[2].x
  /\ plines[1].items[1].idx < plines[1].items[2].idx

\* the text is a non-empty string of decimal digits
IsDigitString(t) == t # <<>> /\ \A i \in DOMAIN t : t[i] \in Digit

\* C3: a run is flagged isCitation exactly when its trimmed text is a
\* non-empty digit string and its font size |transform[0]| is below 10; no
\* run of font size 10 or more is flagged.
C3_CitationRule ==
  \A k \in DOMAIN plines : \A i \in DOMAIN plines[k].items :
    LET r == plines[k].items[i]
        item == file.pages[pageNum - 1][r.idx]
    IN /\ r.isCitation <=> (IsDigitString(Trim(item.str)) /\ Abs(item.ts) < 10)
       /\ Abs(item.ts) >= 10 => ~r.isCitation

\* C3 witness: a small all-digit run flagged beside a 10-point all-digit run
\* and a small run that is not all digits, both unflagged
C3_Witness ==
  /\ \E k \in DOMAIN plines : \E i \in DOMAIN plines[k].items :
       plines[k].items[i].isCitation /\ plines[k].items[i].text = <<" ", "7", " ">>
  /\ \E k \in DOMAIN plines : \E i \in DOMAIN plines[k].items :
       ~plines[k].items[i].isCitation /\ plines[k].items[i].text = <<"1", "2">>
  /\ \E k \in DOMAIN plines : \E i \in DOMAIN plines[k].items :
       ~plines[k].items[i].isCitation /\ plines[k].items[i].text = <<"1", "a">>

\* ------------------------------------------------------------------------
\* The segmenter on the lines of a one-page document
\* ------------------------------------------------------------------------

\* the characters of the lines of the segmenter model
SegChars == {"u2022", " ", "a", "1", "."}

\* the largest length of those lines
MaxLineLen == 5

\* other lines: the examples of the design document, the ')' marker, dashes
\* with no space behind them, letters and roman numerals as list markers
ExtraLines ==
  { <<"u2022", " ", "F", "i", "r", "s", "t", " ", "i", "t", "e", "m">>,
    <<"1", ".", " ", "S", "t", "e", "p", " ", "o", "n", "e">>,
    <<"1", "2", ")", " ", " ", "a", " ", "b">>,
    <<"-", "a">>,
    <<"u2013", "a", " ", "b">>,
    <<"u2014", "a">>,
    <<"i", "v", ".", " ", "b">>,
    <<"b", ")", " ", "c">>,
    <<"A", ".", " ", "S", "m", "i", "t", "h">>,
    <<"I", "V", ")", " ", "x">>,
    <<"I", "n", "t", "r", "o", " ", "t", "e", "x", "t", " ", "u2022", " ", "b", "u", "l", "l", "e", "t",
      " ", "o", "n", "e", " ", "u25CF", " ", "b", "u", "l", "l", "e", "t", " ", "t", "w", "o">> }

SegLines == SeqsUpTo(SegChars, MaxLineLen) \cup ExtraLines

\* a line that leaves inList true for the line after it
ListLine == <<"-", " ", "x">>

\* a page whose k-th line from the top is the single run ls[k]
PageOfLines(ls) == [k \in DOMAIN ls |-> Glyph(ls[k], 0, 2 * (Len(ls) - k), 12, F1)]

SegFiles ==
  {[name |-> <<"a", ".", "p", "d", "f">>, pages |-> <<PageOfLines(ls)>>] :
     ls \in {<<l>> : l \in SegLines} \cup {<<ListLine, l>> : l \in SegLines}}

InitSeg == \E f \in SegFiles : Start(f)

NextSeg ==
  \/ Open
  \/ Pass1Page
  \/ Classify
  \/ Pass2Page
  \/ CheckEmpty
  \/ StartFormat
  \/ FormatNext
  \/ FinishFormat

\* the conversion of a one-page document up to the return of formatAsMarkdown
SpecSeg == InitSeg /\ [][NextSeg]_vars

\* lines.forEach is about to visit a line
AtLine == pc = "lines" /\ lineIdx <= Len(textLines)

\* the number of decimal digits a text starts with
DigitPrefixLen(t) ==
  CHOOSE n \in 0..Len(t) :
    /\ \A i \in 1..n : t[i] \in Digit
    /\ n = Len(t) \/ t[n + 1] \notin Digit

\* the trimmed line is one bullet glyph, white space, and a text without bullet glyph
IsBulletLine(line) ==
  LET t == Trim(line)
  IN /\ Len(t) >= 3
     /\ t[1] \in BulletChars
     /\ t[2] \in WS
     /\ \A i \in 2..Len(t) : t[i] \notin BulletChars

\* the trimmed line is digits, '.' or ')', white space, and a text; no bullet glyph
IsNumberedLine(line) ==
  LET t == Trim(line)
      n == DigitPrefixLen(t)
  IN /\ n >= 1
     /\ Len(t) >= n + 3
     /\ t[n + 1] \in {".", ")"}
     /\ t[n + 2] \in WS
     /\ \A i \in DOMAIN t : t[i] \notin BulletChars

\* the text of a line after its marker of length n and the white space behind it
TextAfter(line, n) == TrimStart(SubSeq(Trim(line), n + 1, Len(Trim(line))))

\* C5: a line "bullet glyph, white space, T" appends exactly "- T" to the
\* Markdown (one list item, no paragraph, no separator) and leaves inList
\* true, whatever inList was.
C5_BulletItem ==
  [][(AtLine /\ IsBulletLine(textLines[lineIdx])) =>
       /\ markdown' = markdown \o <<"-", " ">> \o TextAfter(textLines[lineIdx], 1) \o <<"\n">>
       /\ inList' = TRUE]_vars

\* C5 witness: the line "bullet First item" was turned into "- First item"
\* after a list line, and inList is true
C5_Witness ==
  /\ pc = "lines"
  /\ lineIdx = 3
  /\ textLines[1] = ListLine
  /\ IsBulletLine(textLines[2])
  /\ inList
  /\ markdown = Heading(file.name) \o <<"-", " ", "x", "\n">>
                \o <<"-", " ", "F", "i", "r", "s", "t", " ", "i", "t", "e", "m", "\n">>

\* C6: a line without bullet glyph made of digits, '.' or ')', white space
\* and T appends exactly "1. T" and leaves inList true.
C6_NumberedItem ==
  [][(AtLine /\ IsNumberedLine(textLines[lineIdx])) =>
       /\ markdown' = markdown \o <<"1", ".", " ">>
                      \o TextAfter(textLines[lineIdx], DigitPrefixLen(Trim(textLines[lineIdx])) + 1)
                      \o <<"\n">>
       /\ inList' = TRUE]_vars

\* C6 witness: the line "12)  a b" was turned into "1. a b", and inList is true
C6_Witness ==
  /\ pc = "lines"
  /\ lineIdx = 2
  /\ IsNumberedLine(textLines[1])
  /\ textLines[1][3] = ")"
  /\ inList
  /\ markdown = Heading(file.name) \o <<"1", ".", " ", "a", " ", "b", "\n">>

\* the spans of a line around its bullet glyphs: P, T1, ..., Tn
Spans(line) == SplitOn(Trim(line), BulletChars, <<>>)

\* the line is P g T1 ... g Tn with P and every Ti non-empty after trimming
IsMidBulletLine(line) ==
  /\ Len(Spans(line)) >= 2
  /\ \A k \in DOMAIN Spans(line) : Trim(Spans(line)[k]) # <<>>

RECURSIVE ItemsOf(_, _)
\* "- Tk" for the spans k.. of a line
ItemsOf(sp, k) ==
  IF k > Len(sp) THEN <<>>
  ELSE <<"-", " ">> \o Trim(sp[k]) \o <<"\n">> \o ItemsOf(sp, k + 1)

\* C7: a line P g T1 ... g Tn appends (after the separator that closes an
\* open list) the paragraph P trimmed, then "- Ti" for every Ti trimmed, in
\* order, and leaves inList true.
C7_MidLineBullets ==
  [][(AtLine /\ IsMidBulletLine(textLines[lineIdx])) =>
       /\ markdown' = markdown \o (IF inList THEN <<"\n">> ELSE <<>>)
                      \o Trim(Spans(textLines[lineIdx])[1]) \o <<"\n">>
                      \o ItemsOf(Spans(textLines[lineIdx]), 2)
       /\ inList' = TRUE]_vars

\* what the code does on such a line: the paragraph keeps the space that
\* the loop appends to the leading span
C7_ParagraphKeepsSpace ==
  [][(AtLine /\ IsMidBulletLine(textLines[lineIdx])) =>
       /\ markdown' = markdown \o (IF inList THEN <<"\n">> ELSE <<>>)
                      \o Trim(Spans(textLines[lineIdx])[1]) \o <<" ", "\n">>
                      \o ItemsOf(Spans(textLines[lineIdx]), 2)
       /\ inList' = TRUE]_vars

\* ------------------------------------------------------------------------
\* The post-processing of one-line documents
\* ------------------------------------------------------------------------

\* the characters of the lines of the post-processing model
NormChars == {"*", " ", "1", "a", "."}

\* the largest length of those lines
MaxNormLen == 4

NormFiles ==
  {[name |-> <<"a", ".", "p", "d", "f">>, pages |-> <<PageOfLines(<<l>>)>>] :
     l \in SeqsUpTo(NormChars, MaxNormLen)}

InitNorm == \E f \in NormFiles : Start(f)

NextNorm ==
  \/ Open
  \/ Pass1Page
  \/ Classify
  \/ Pass2Page
  \/ CheckEmpty
  \/ StartFormat
  \/ FormatNext
  \/ FinishFormat
  \/ NormalizeStep
  \/ MergeStart
  \/ MergeIter
  \/ MergeReturn
  \/ Return
  \/ Catch

\* the conversion of a one-page, one-line document
SpecNorm == InitNorm /\ [][NextNorm]_vars

\* C2: the post-processing is idempotent: applied to the Markdown a
\* conversion returned it changes nothing, and each statement applied twice
\* to the Markdown it receives gives what it gives applied once.
C2_Idempotent ==
  /\ (pc = "done" /\ result.success) => Normalize(result.markdown) = result.markdown
  /\ (pc = "normalize" /\ passIdx <= Len(PassNames)) =>
       ApplyPass(passIdx, ApplyPass(passIdx, markdown)) = ApplyPass(passIdx, markdown)

\* ------------------------------------------------------------------------
\* The merge loop on lines of bold spans
\* ------------------------------------------------------------------------

BoldFont == <<"A", "-", "B", "o", "l", "d">>

\* the contents of the bold spans of the merge model: no '*', no newline
SpanTexts == { <<"a">>, <<"b", " ", "c">>, <<" ">> }

\* what separates two bold spans: nothing, or a run of one space in no font
SpanSeps == { <<>>, <<" ">> }

\* the largest number of bold spans of a line
MaxSpans == 4

RECURSIVE SpanRuns(_, _, _)
\* the runs of a line of bold spans cs separated by seps, from x on
SpanRuns(cs, seps, x) ==
  IF cs = <<>> THEN <<>>
  ELSE <<Glyph(Head(cs), x, 0, 12, BoldFont)>>
       \o (IF Len(cs) > 1 /\ Head(seps) # <<>> THEN <<Glyph(Head(seps), x + 1, 0, 12, <<>>)>> ELSE <<>>)
       \o (IF Len(cs) > 1 THEN SpanRuns(Tail(cs), Tail(seps), x + 2) ELSE <<>>)

MergeFiles ==
  {[name |-> <<"a", ".", "p", "d", "f">>, pages |-> <<SpanRuns(p[1], p[2], 0)>>] :
     p \in {q \in (SeqsUpTo(SpanTexts, MaxSpans) \ {<<>>}) \X SeqsUpTo(SpanSeps, MaxSpans - 1) :
               Len(q[2]) = Len(q[1]) - 1}}

InitMerge == \E f \in MergeFiles : Start(f)

\* the conversion of a one-line document of bold spans, up to the end of the merge statement
NextMerge ==
  \/ Open
  \/ Pass1Page
  \/ Classify
  \/ Pass2Page
  \/ CheckEmpty
  \/ StartFormat
  \/ FormatNext
  \/ FinishFormat
  \/ NormalizeStep
  \/ MergeStart
  \/ MergeIter
  \/ MergeReturn

SpecMerge == InitMerge /\ [][NextMerge]_vars

RECURSIVE BoldTexts(_)
\* the texts of the bold-font runs of a page, in order
BoldTexts(items) ==
  IF items = <<>> THEN <<>>
  ELSE (IF Head(items).fontName = BoldFont THEN <<Head(items).str>> ELSE <<>>) \o BoldTexts(Tail(items))

\* the callback is at the line that holds the k >= 2 bold spans of the document
AtSpanLine == mIdx = 3 /\ Len(BoldTexts(file.pages[1])) >= 2

ExtractionFailed == thrown.by = "collaborator"

\* C11: once the opening or a page retrieval has failed, the conversion
\* retrieves nothing more and renders nothing more, and it returns the failure
\* record, without Markdown, whose error is the message of the library's
\* error, or the fixed text 'Failed to convert PDF to markdown' when that
\* message is empty.
C11_ExtractionFailure ==
  /\ [](ExtractionFailed =>
          /\ pc \in {"catch", "done"}
          /\ pc = "done" =>
               /\ result = [success |-> FALSE,
                            error |-> IF thrown.message = "" THEN DefaultMessage ELSE thrown.message]
               /\ "markdown" \notin DOMAIN result)
  /\ [][ExtractionFailed =>
          UNCHANGED <<numPages, pageNum, allItems, regularFont, plines, fullText, markdown, thrown>>]_vars

\* C11 as stated: the error returned is the library's message unchanged
C11_MessageVerbatim ==
  (pc = "done" /\ ExtractionFailed) =>
    result = [success |-> FALSE, error |-> thrown.message]

\* C11 witness: the second page failed in the second pass, after the first
\* page was rendered; the failure record carries the library's message
C11_Witness ==
  /\ pc = "done"
  /\ ExtractionFailed
  /\ regularFont # Undefined
  /\ pageNum = 2
  /\ Trim(fullText) # <<>>
  /\ result = [success |-> FALSE, error |-> "Invalid PDF structure"]

\* ------------------------------------------------------------------------
\* The App component: readFile(file)
\* ------------------------------------------------------------------------

\* String.prototype.endsWith
EndsWith(s, suffix) ==
  Len(s) >= Len(suffix) /\ SubSeq(s, Len(s) - Len(suffix) + 1, Len(s)) = suffix

ExtMd == <<".", "m", "d">>

ExtPdf == <<".", "p", "d", "f">>

ExtMarkdown == <<".", "m", "a", "r", "k", "d", "o", "w", "n">>

RejectMessage == "Please select a markdown (.md) or PDF (.pdf) file"

ReadErrorMessage == "Error reading file"

\* the state of the component when readFile is called on a fresh viewer
AppCalled ==
  [pc |-> "call", markdown |-> <<>>, fileName |-> <<>>, error |-> "",
   isLoading |-> FALSE, isPdf |-> FALSE]

\* !fileName.endsWith('.md') && !fileName.endsWith('.pdf')
Rejected(name) == ~EndsWith(ToLower(name), ExtMd) /\ ~EndsWith(ToLower(name), ExtPdf)

\* readFile, the extension refused: setError(...); return
AppReject ==
  /\ app.pc = "call"
  /\ Rejected(file.name)
  /\ app' = [app EXCEPT !.error = RejectMessage, !.pc = "end"]
  /\ UNCHANGED <<pc, file, numPages, pageNum, allItems, regularFont, plines, fullText,
                 textLines, lineIdx, markdown, inList, passIdx, thrown, result, cleaned,
                 iter, mlines, mIdx, other>>

\* readFile, the extension accepted: the setters, then either
\* convertPdfToMarkdown(file) is called or reader.readAsText(file)
AppAccept ==
  /\ app.pc = "call"
  /\ ~Rejected(file.name)
  /\ IF EndsWith(ToLower(file.name), ExtPdf)
     THEN /\ app' = [app EXCEPT !.error = "", !.fileName = file.name, !.isPdf = TRUE,
                                !.isLoading = TRUE, !.pc = "converting"]
          /\ pc' = "open"
     ELSE /\ app' = [app EXCEPT !.error = "", !.fileName = file.name, !.isPdf = FALSE,
                                !.pc = "reading"]
          /\ pc' = pc
  /\ UNCHANGED <<file, numPages, pageNum, allItems, regularFont, plines, fullText,
                 textLines, lineIdx, markdown, inList, passIdx, thrown, result, cleaned,
                 iter, mlines, mIdx, other>>

\* the await of convertPdfToMarkdown resumes: the result shown, setIsLoading(false)
AppConverted ==
  /\ app.pc = "converting"
  /\ pc = "done"
  /\ app' = IF result.success
            THEN [app EXCEPT !.markdown = result.markdown, !.fileName = result.originalName,
                             !.isLoading = FALSE, !.pc = "end"]
            ELSE [app EXCEPT !.error = IF result.error # "" THEN result.error ELSE DefaultMessage,
                             !.isLoading = FALSE, !.pc = "end"]
  /\ UNCHANGED <<pc, file, numPages, pageNum, allItems, regularFont, plines, fullText,
                 textLines, lineIdx, markdown, inList, passIdx, thrown, result, cleaned,
                 iter, mlines, mIdx, other>>

\* reader.onload: setMarkdown(e.target.result)
AppLoad ==
  /\ app.pc = "reading"
  /\ app' = [app EXCEPT !.markdown = file.text, !.pc = "end"]
  /\ UNCHANGED <<pc, file, numPages, pageNum, allItems, regularFont, plines, fullText,
                 textLines, lineIdx, markdown, inList, passIdx, thrown, result, cleaned,
                 iter, mlines, mIdx, other>>

\* reader.onerror: setError('Error reading file')
AppReadError ==
  /\ app.pc = "reading"
  /\ app' = [app EXCEPT !.error = ReadErrorMessage, !.pc = "end"]
  /\ UNCHANGED <<pc, file, numPages, pageNum, allItems, regularFont, plines, fullText,
                 textLines, lineIdx, markdown, inList, passIdx, thrown, result, cleaned,
                 iter, mlines, mIdx, other>>

\* the names of the files given to readFile
AppNames ==
  { <<"a">> \o ExtMd,
    <<"A", ".", "M", "D">>,
    <<"a">> \o ExtMarkdown,
    <<"a">> \o ExtPdf,
    <<"a", ".", "P", "d", "f">>,
    <<"a", ".", "t", "x", "t">>,
    <<"a", "m", "d">> }

\* the text of the files that FileReader reads
AppTexts == { <<>>, <<"#", " ", "t">> }

AppFiles ==
  {[name |-> n, pages |-> d, text |-> t] :
     n \in AppNames, d \in SeqsUpTo(DocPages, 1), t \in AppTexts}

InitApp ==
  /\ app = AppCalled
  /\ other = NoOther
  /\ \E f \in AppFiles : LocalsAt(f, "idle")

NextApp ==
  \/ AppReject
  \/ AppAccept
  \/ Open
  \/ OpenFail
  \/ Pass1Page
  \/ PageFail
  \/ Classify
  \/ Pass2Page
  \/ CheckEmpty
  \/ StartFormat
  \/ FormatNext
  \/ FinishFormat
  \/ NormalizeStep
  \/ MergeStart
  \/ MergeIter
  \/ MergeReturn
  \/ Return
  \/ Catch
  \/ AppConverted
  \/ AppLoad
  \/ AppReadError

\* one call of readFile on a fresh viewer
SpecApp == InitApp /\ [][NextApp]_vars

\* the name ends, in any letter case, in .md, .markdown or .pdf
SupportedName(name) ==
  \/ EndsWith(ToLower(name), ExtMd)
  \/ EndsWith(ToLower(name), ExtMarkdown)
  \/ EndsWith(ToLower(name), ExtPdf)

\* C12: readFile accepts every file whose name ends, in any letter case, in
\* .md, .markdown or .pdf (the file name is shown and the refusal message is
\* not); a file of any other extension is refused with the error message and
\* nothing of it is loaded.
C12_SupportedTypes ==
  app.pc = "end" =>
    IF SupportedName(file.name)
    THEN app.error # RejectMessage /\ app.fileName # <<>>
    ELSE app.error = RejectMessage /\ app.markdown = <<>> /\ app.fileName = <<>>

\* ------------------------------------------------------------------------
\* Two calls of convertPdfToMarkdown interleaved at their awaits
\* ------------------------------------------------------------------------

\* the locals of the call that is running
Locals ==
  [pc |-> pc, file |-> file, numPages |-> numPages, pageNum |-> pageNum,
   allItems |-> allItems, regularFont |-> regularFont, plines |-> plines,
   fullText |-> fullText, textLines |-> textLines, lineIdx |-> lineIdx,
   markdown |-> markdown, inList |-> inList, passIdx |-> passIdx, thrown |-> thrown,
   result |-> result, mlines |-> mlines, mIdx |-> mIdx, cleaned |-> cleaned, iter |-> iter]

\* the locals of a call convertPdfToMarkdown(f) suspended at its first await
CalledLocals(f) ==
  [pc |-> "open", file |-> f, numPages |-> 0, pageNum |-> 0,
   allItems |-> <<>>, regularFont |-> Undefined, plines |-> <<>>,
   fullText |-> <<>>, textLines |-> <<>>, lineIdx |-> 0,
   markdown |-> <<>>, inList |-> FALSE, passIdx |-> 0, thrown |-> NoError,
   result |-> NoResult, mlines |-> <<>>, mIdx |-> 0, cleaned |-> <<>>, iter |-> 0]

\* the running call is suspended: at await file.arrayBuffer() / getDocument,
\* or at await pdf.getPage / page.getTextContent of either loop
AtAwait == pc = "open" \/ (pc \in {"pass1", "pass2"} /\ pageNum <= numPages)

\* mutant: allItems declared outside the function, one array for every call
ResumedSharedItems(mine, running) == [mine EXCEPT !.allItems = running.allItems]

\* what a call finds in its locals when it resumes: what it left there
Resumed(mine, running) == mine

\* the running call is suspended (or has returned) and the other call resumes
Switch ==
  /\ other.pc \notin {"none", "done"}
  /\ AtAwait \/ pc = "done"
  /\ other' = Locals
  /\ LET r == Resumed(other, Locals)
     IN /\ pc' = r.pc
        /\ file' = r.file
        /\ numPages' = r.numPages
        /\ pageNum' = r.pageNum
        /\ allItems' = r.allItems
        /\ regularFont' = r.regularFont
        /\ plines' = r.plines
        /\ fullText' = r.fullText
        /\ textLines' = r.textLines
        /\ lineIdx' = r.lineIdx
        /\ markdown' = r.markdown
        /\ inList' = r.inList
        /\ passIdx' = r.passIdx
        /\ thrown' = r.thrown
        /\ result' = r.result
        /\ mlines' = r.mlines
        /\ mIdx' = r.mIdx
        /\ cleaned' = r.cleaned
        /\ iter' = r.iter
  /\ UNCHANGED app

\* the documents converted concurrently
ConcFiles ==
  { [name |-> <<"a", ".", "p", "d", "f">>,
     pages |-> << <<Glyph(<<"a">>, 0, 0, 12, F1)>> >>],
    [name |-> <<"b", ".", "p", "d", "f">>,
     pages |-> << <<Glyph(<<"c">>, 0, 0, 12, F2), Glyph(<<"d">>, 5, 0, 12, F2)>>,
                  <<Glyph(<<"e">>, 0, 0, 12, F1)>> >>],
    [name |-> <<"c", ".", "p", "d", "f">>,
     pages |-> << <<Glyph(<<"u2022", " ", "c">>, 0, 0, 12, F1), Glyph(<<"d">>, 0, 20, 12, F2)>>,
                  <<Glyph(<<"1">>, 0, 0, 9, F1), Glyph(<<"f">>, 4, 0, 9, F2)>> >>],
    [name |-> <<"d", ".", "p", "d", "f">>,
     pages |-> << <<Glyph(<<" ">>, 0, 0, 12, F1)>> >>] }

InitConc ==
  /\ app = NoApp
  /\ \E f \in ConcFiles : LocalsAt(f, "open")
  /\ \E g \in ConcFiles : g # file /\ other = CalledLocals(g)

NextConc ==
  \/ Open
  \/ Pass1Page
  \/ Classify
  \/ Pass2Page
  \/ CheckEmpty
  \/ StartFormat
  \/ FormatNext
  \/ FinishFormat
  \/ NormalizeStep
  \/ MergeStart
  \/ MergeIter
  \/ MergeReturn
  \/ Return
  \/ Catch
  \/ Switch

\* two conversions of different documents, both called before either resumes
SpecConc == InitConc /\ [][NextConc]_vars

RECURSIVE DocText(_, _, _)
\* the text of the pages from page p on, each page after the first preceded by two newlines
DocText(pages, p, rf) ==
  IF p > Len(pages) THEN <<>>
  ELSE (IF p > 1 THEN <<"\n", "\n">> ELSE <<>>) \o PageText(PageLines(pages[p], rf))
       \o DocText(pages, p + 1, rf)

\* what convertPdfToMarkdown(f) returns when it runs alone and the extraction succeeds
SoloResult(f) ==
  LET text == DocText(f.pages, 1, RegularFont(DocFontItems(f.pages)))
  IN IF Trim(text) = <<>>
     THEN [success |-> FALSE, error |-> EmptyMessage]
     ELSE [success |-> TRUE, markdown |-> Normalize(FormatAsMarkdown(text, f.name)),
           originalName |-> RenamedName(f.name),
           pageCount |-> Len(f.pages), info |-> [pages |-> Len(f.pages)]]

\* C13: two conversions of different documents interleaved at their awaits do
\* not interfere: in every interleaving each one classifies with the regular
\* font of its own document and returns what it returns when it runs alone.
C13_NoInterference ==
  \A c \in {Locals, other} :
    /\ c.pc \notin {"open", "pass1"} => c.regularFont = RegularFont(DocFontItems(c.file.pages))
    /\ c.pc = "done" => c.result = SoloResult(c.file)

\* C13 witness: one conversion has returned its Markdown while the other,
\* which rendered its first page in between, is suspended in its second pass
C13_Witness ==
  /\ pc = "done"
  /\ result.success
  /\ result = SoloResult(file)
  /\ other.pc = "pass2"
  /\ other.pageNum = 2
  /\ Trim(other.fullText) # <<>>
  /\ other.regularFont # regularFont

\* what the step on the current line appended to the Markdown
Appended == SubSeq(markdown', Len(markdown) + 1, Len(markdown'))

\* a paragraph that carries the trimmed text of the line, after the separator that closes an open list
ParagraphOf(line) == (IF inList THEN <<"\n">> ELSE <<>>) \o Trim(line) \o <<"\n">>

\* the line yields no list item: no glyph followed by text, no marker at its start
YieldsNoItem(line) ==
  /\ \A k \in 2..Len(Spans(line)) : Trim(Spans(line)[k]) = <<>>
  /\ MatchAlt(ReBulletMatch, 1, Trim(line)) = NoMatch
  /\ MatchAlt(ReNumberedMatch, 1, Trim(line)) = NoMatch

\* C14: no line is dropped: the step on a line whose trimmed text is not
\* empty appends a block (some text that is not blank), and a line that
\* yields no list item is appended as a paragraph carrying its trimmed text.
C14_NoLineDropped ==
  [][(AtLine /\ Trim(textLines[lineIdx]) # <<>>) =>
       /\ markdown' = markdown \o Appended
       /\ Trim(Appended) # <<>>
       /\ YieldsNoItem(textLines[lineIdx]) => Appended = ParagraphOf(textLines[lineIdx])]_vars

\* what the code does: the property holds of every line that has a character
\* other than bullet glyphs and white space
C14_DroppedOnlyGlyphLines ==
  [][(AtLine /\ \E i \in DOMAIN textLines[lineIdx] : textLines[lineIdx][i] \notin BulletChars \cup WS) =>
       /\ markdown' = markdown \o Appended
       /\ Trim(Appended) # <<>>
       /\ (YieldsNoItem(textLines[lineIdx]) /\ \A i \in DOMAIN textLines[lineIdx] : textLines[lineIdx][i] \notin BulletChars)
            => Appended = ParagraphOf(textLines[lineIdx])]_vars

\* ------------------------------------------------------------------------
\* The order of the two passes
\* ------------------------------------------------------------------------

\* the first n pages of the document
FirstPages(n) == SubSeq(file.pages, 1, n)

\* C15: the conversion makes two passes. While the first runs, pages 1..N are
\* retrieved in order and nothing is rendered; the regular font is computed
\* from all pages before the second pass starts and never changes afterwards;
\* the second pass renders pages 1..N in order, the text of each page placed
\* after the text of the pages before it.
C15_TwoPasses ==
  /\ [](pc = "pass1" =>
          /\ allItems = DocFontItems(FirstPages(pageNum - 1))
          /\ regularFont = Undefined
          /\ plines = <<>>
          /\ fullText = <<>>)
  /\ [](pc = "pass2" =>
          /\ allItems = DocFontItems(file.pages)
          /\ regularFont = RegularFont(DocFontItems(file.pages))
          /\ pageNum \in 1..(numPages + 1)
          /\ fullText = DocText(FirstPages(pageNum - 1), 1, regularFont))
  /\ [][pc \notin {"open", "pass1"} => regularFont' = regularFont]_vars
  /\ [][(pc = "pass1" /\ pc' = "pass1") => pageNum' = pageNum + 1]_vars
  /\ [][(pc = "pass2" /\ pc' = "pass2") =>
          /\ pageNum' = pageNum + 1
          /\ Len(fullText') >= Len(fullText)
          /\ SubSeq(fullText', 1, Len(fullText)) = fullText]_vars

\* C15 witness: both pages of a document rendered, the text of page 1 before
\* the separator and the different text of page 2
C15_Witness ==
  /\ pc = "pass2"
  /\ numPages = 2
  /\ pageNum = 3
  /\ fullText = <<"a", "\n", "\n", "\n", "1", " ", "b", "\n">>

\* ------------------------------------------------------------------------
\* Font analysis and bold detection over documents of a few fonts
\* ------------------------------------------------------------------------

\* the font names of the font model: two plain names, no name, and names
\* that carry a weight keyword in some letter case
FontNames ==
  { F1, F2, <<>>, BoldFont, <<"h", "e", "a", "v", "y">>, <<"B", "L", "A", "C", "K", "x">> }

FontGlyphs == {Glyph(<<"a">>, 0, 0, 12, n) : n \in FontNames}

\* the largest number of runs of a page of the font model
MaxFontRuns == 2

FontPages == SeqsUpTo(FontGlyphs, MaxFontRuns)

\* one page, or a page followed by a page of one run
FontFiles ==
  {[name |-> <<"a", ".", "p", "d", "f">>, pages |-> d] :
     d \in {<<p>> : p \in FontPages} \cup {<<p, <<g>> >> : p \in FontPages, g \in FontGlyphs}}

InitFont == \E f \in FontFiles : Start(f)

NextFont ==
  \/ Open
  \/ Pass1Page
  \/ Classify
  \/ Pass2Page

\* the conversion up to the end of the second pass
SpecFont == InitFont /\ [][NextFont]_vars

\* the number of runs of the document in font n
RunsInFont(n) ==
  Cardinality({i \in DOMAIN DocFontItems(file.pages) : DocFontItems(file.pages)[i].fontName = n})

\* the place of the first run in font n in the run stream of the document
FirstSeen(n) ==
  CHOOSE i \in DOMAIN DocFontItems(file.pages) :
    /\ DocFontItems(file.pages)[i].fontName = n
    /\ \A j \in 1..(i - 1) : DocFontItems(file.pages)[j].fontName # n

WeightKeywords == { <<"b", "o", "l", "d">>, <<"h", "e", "a", "v", "y">>, <<"b", "l", "a", "c", "k">> }

\* the font name holds a weight keyword at some place, in any letter case
HasWeightKeyword(name) ==
  \E kw \in WeightKeywords : \E i \in 1..Len(name) :
    /\ i + Len(kw) - 1 <= Len(name)
    /\ ToLower(SubSeq(name, i, i + Len(kw) - 1)) = kw

\* C17: a run is flagged isBold exactly when its font name holds 'bold',
\* 'heavy' or 'black' (in any letter case), or its font name is not empty and
\* differs from the regular font; so a run without font name is never bold,
\* and a run in the regular font is bold only if the name holds a keyword.
C17_BoldRule ==
  \A k \in DOMAIN plines : \A i \in DOMAIN plines[k].items :
    LET r == plines[k].items[i]
        name == file.pages[pageNum - 1][r.idx].fontName
    IN /\ r.isBold <=> (HasWeightKeyword(name) \/ (name # <<>> /\ name # regularFont))
       /\ name = <<>> => ~r.isBold
       /\ (name = regularFont /\ ~HasWeightKeyword(name)) => ~r.isBold

\* C17 witness: on a page in the regular font "A-Bold", the run in that font
\* is bold and the run without font name is not
C17_Witness ==
  /\ pc = "pass2"
  /\ regularFont = BoldFont
  /\ Len(plines) = 1
  /\ Len(plines[1].items) = 2
  /\ plines[1].items[1].fontName = BoldFont
  /\ plines[1].items[1].isBold
  /\ plines[1].items[2].fontName = <<>>
  /\ ~plines[1].items[2].isBold

\* ------------------------------------------------------------------------
\* Rounding of the ordinate, negative ordinates included
\* ------------------------------------------------------------------------

\* transform[5] of the runs of the rounding model, in half units: -2.5, -2,
\* -1.5, -0.5, 0, 0.5, 1.5 and 2.5
RoundYs == {-5, -4, -3, -1, 0, 1, 3, 5}

RoundGlyphs == {Glyph(<<"a">>, 0, y, 12, F1) : y \in RoundYs}

\* pages of one or two runs
RoundFiles ==
  {[name |-> <<"a", ".", "p", "d", "f">>, pages |-> <<p>>] :
     p \in {<<g>> : g \in RoundGlyphs} \cup {<<g, h>> : g, h \in RoundGlyphs}}

InitRound == \E f \in RoundFiles : Start(f)

NextRound ==
  \/ Open
  \/ Pass1Page
  \/ Classify
  \/ Pass2Page

SpecRound == InitRound /\ [][NextRound]_vars

\* the ordinate, in half units, of the run r of a line of the page rendered last
OrdinateOf(r) == file.pages[pageNum - 1][r.idx].ty

\* C18 (amended): the key of the line of a run is the integer nearest to its
\* ordinate y, a fractional part of exactly one half rounding towards plus
\* infinity for negative y as well: y - 1/2 <= key < y + 1/2 fails only in
\* that key = y + 1/2 is taken, never y - 1/2, so -2.5 has the key -2.
C18_RoundHalfUp ==
  \A k \in DOMAIN plines : \A i \in DOMAIN plines[k].items :
    LET y2 == OrdinateOf(plines[k].items[i])
    IN /\ 2 * plines[k].y - 1 <= y2
       /\ y2 <= 2 * plines[k].y

\* C18 as stated: a fractional part of one half rounds away from zero, so
\* -2.5 has the key -3
C18_RoundHalfAwayFromZero ==
  \A k \in DOMAIN plines : \A i \in DOMAIN plines[k].items :
    LET y2 == OrdinateOf(plines[k].items[i])
    IN plines[k].y = IF y2 >= 0 THEN (y2 + 1) \div 2 ELSE -((1 - y2) \div 2)

\* C18 witness: the runs of ordinate -2.5 and -2 lie in the one line of key -2
C18_Witness ==
  /\ Len(plines) = 1
  /\ plines[1].y = -2
  /\ Len(plines[1].items) = 2
  /\ OrdinateOf(plines[1].items[1]) = -5
  /\ OrdinateOf(plines[1].items[2]) = -4

\* ------------------------------------------------------------------------
\* The lines of a page as a partition of its runs
\* ------------------------------------------------------------------------

\* the places <<line, position>> of the lines of the page rendered last
Places == {q \in (DOMAIN plines) \X (1..MaxRuns) : q[2] <= Len(plines[q[1]].items)}

\* the run at a place
RunAt(q) == plines[q[1]].items[q[2]]

\* C19: the lines of a page partition its runs by rounded ordinate: every run
\* of the page is at exactly one place of exactly one line, with its text,
\* and two runs are in the same line exactly when their rounded ordinates
\* are equal.
C19_Partition ==
  (pc = "pass2" /\ pageNum = 2) =>
    /\ \A q \in Places : RunAt(q).idx \in DOMAIN file.pages[1]
    /\ \A i \in DOMAIN file.pages[1] :
         /\ Cardinality({q \in Places : RunAt(q).idx = i}) = 1
         /\ \A q \in Places : RunAt(q).idx = i => RunAt(q).text = file.pages[1][i].str
    /\ \A q, r \in Places :
         q[1] = r[1] <=> Round(OrdinateOf(RunAt(q))) = Round(OrdinateOf(RunAt(r)))

\* C19 witness: three runs of ordinates 0.5, 1 and 1.5; the first two, whose
\* ordinates differ, share the line of key 1 and the third lies in the line of key 2
C19_Witness ==
  /\ pc = "pass2"
  /\ pageNum = 2
  /\ Len(file.pages[1]) = 3
  /\ Len(plines) = 2
  /\ plines[1].y = 2
  /\ Len(plines[1].items) = 1
  /\ plines[2].y = 1
  /\ {OrdinateOf(plines[2].items[j]) : j \in 1..2} = {1, 2}

\* ------------------------------------------------------------------------
\* The rendering of the lines of a page
\* ------------------------------------------------------------------------

\* text, transform[0] and font of the runs of the rendering model: a plain
\* run, a bold run, a citation, and a citation in a bold font
LineKinds ==
  { [str |-> <<" ", "a">>, ts |-> 12, fontName |-> F1],
    [str |-> <<"b", " ">>, ts |-> 12, fontName |-> BoldFont],
    [str |-> <<"7">>, ts |-> 9, fontName |-> F1],
    [str |-> <<"3">>, ts |-> 9, fontName |-> BoldFont] }

LineGlyphs ==
  {Glyph(k.str, x, y, k.ts, k.fontName) : k \in LineKinds, x \in {0, 3}, y \in {0, 2}}

\* the largest number of runs of a page of the rendering model
MaxLineRuns == 3

LineFiles ==
  {[name |-> <<"a", ".", "p", "d", "f">>, pages |-> <<p>>] : p \in SeqsUpTo(LineGlyphs, MaxLineRuns)}

InitLine == \E f \in LineFiles : Start(f)

NextLine ==
  \/ Open
  \/ Pass1Page
  \/ Classify
  \/ Pass2Page

SpecLine == InitLine /\ [][NextLine]_vars

\* what one run contributes to the text of its line
Piece(r) ==
  IF r.isCitation THEN <<>>
  ELSE IF r.isBold THEN <<"*", "*">> \o r.text \o <<"*", "*">>
  ELSE r.text

RECURSIVE PiecesUpTo(_, _)
\* the pieces of the first n runs of a line, one after the other
PiecesUpTo(rs, n) == IF n = 0 THEN <<>> ELSE PiecesUpTo(rs, n - 1) \o Piece(rs[n])

RECURSIVE LinesUpTo(_)
\* the texts of the first n lines of the page, each one that is not blank followed by a newline
LinesUpTo(n) ==
  IF n = 0 THEN <<>>
  ELSE LET t == PiecesUpTo(plines[n].items, Len(plines[n].items))
       IN LinesUpTo(n - 1) \o (IF Trim(t) = <<>> THEN <<>> ELSE t \o <<"\n">>)

\* C20: the text of a line is the pieces of its runs one after the other, in
\* ascending order of x and with nothing between them: nothing for a citation,
\* the text between '**' and '**' for a bold run that is no citation (each
\* bold run wrapped by itself), the text as it is for any other run.
C20_LineRendering ==
  (pc = "pass2" /\ pageNum = 2) =>
    /\ \A k \in DOMAIN plines : \A i, j \in DOMAIN plines[k].items :
         /\ i < j => plines[k].items[i].x <= plines[k].items[j].x
         /\ plines[k].items[i].text = file.pages[1][plines[k].items[i].idx].str
    /\ fullText = LinesUpTo(Len(plines))

\* C20 witness: a line of two bold runs next to each other and a citation,
\* rendered as two spans with nothing for the citation
C20_Witness ==
  /\ pc = "pass2"
  /\ pageNum = 2
  /\ Len(plines) = 1
  /\ Len(plines[1].items) = 3
  /\ plines[1].items[1].isCitation
  /\ plines[1].items[2].isBold
  /\ plines[1].items[3].isBold
  /\ fullText = <<"*", "*", "b", " ", "*", "*", "*", "*", "b", " ", "*", "*", "\n">>

\* ------------------------------------------------------------------------
\* C21: citation filtering and the lines of a page (under SpecLine)
\* ------------------------------------------------------------------------

\* what a run contributes when its citation flag is ignored
PlainPiece(r) ==
  IF r.isBold THEN <<"*", "*">> \o r.text \o <<"*", "*">> ELSE r.text

RECURSIVE PlainText(_)
\* the text of a sequence of runs rendered as ordinary text
PlainText(rs) == IF rs = <<>> THEN <<>> ELSE PlainPiece(Head(rs)) \o PlainText(Tail(rs))

\* the runs of a line that are no citations, in the order of the line
NonCitations(rs) == SelectSeq(rs, LAMBDA r : ~r.isCitation)

RECURSIVE CountNewlines(_)
\* the number of lines of a page text
CountNewlines(s) ==
  IF s = <<>> THEN 0
  ELSE (IF Head(s) = "\n" THEN 1 ELSE 0) + CountNewlines(Tail(s))

RECURSIVE PlainLinesUpTo(_)
\* the page text of the first n lines with every run rendered as ordinary text
PlainLinesUpTo(n) ==
  IF n = 0 THEN <<>>
  ELSE LET t == PlainText(plines[n].items)
       IN PlainLinesUpTo(n - 1) \o (IF Trim(t) = <<>> THEN <<>> ELSE t \o <<"\n">>)

RECURSIVE FilteredLinesUpTo(_)
\* the first n lines, each the ordinary text of its runs that are no
\* citations, a line left without text omitted
FilteredLinesUpTo(n) ==
  IF n = 0 THEN <<>>
  ELSE LET t == PlainText(NonCitations(plines[n].items))
       IN FilteredLinesUpTo(n - 1) \o (IF Trim(t) = <<>> THEN <<>> ELSE t \o <<"\n">>)

\* C21 (as stated): flagging runs as citations removes no line: the page has
\* as many lines as it has when the citation runs are rendered as ordinary
\* text.
C21_NoLineRemoved ==
  (pc = "pass2" /\ pageNum = 2) =>
    CountNewlines(fullText) = CountNewlines(PlainLinesUpTo(Len(plines)))

\* C21 (amended): the runs keep their lines and their order whatever their
\* flags; the text of a line is the ordinary text of its runs that are no
\* citations; a line is emitted exactly when that text does not trim to
\* empty, so a line made of citations only is omitted, and every line with
\* a run that is no citation and has text is kept.
C21_CitationOnlyLinesOmitted ==
  (pc = "pass2" /\ pageNum = 2) =>
    /\ fullText = FilteredLinesUpTo(Len(plines))
    /\ \A i \in DOMAIN file.pages[1] :
         \E k \in DOMAIN plines : \E j \in DOMAIN plines[k].items :
           /\ plines[k].items[j].idx = i
           /\ plines[k].y = Round(file.pages[1][i].ty)
    /\ CountNewlines(fullText)
         = Cardinality({k \in DOMAIN plines :
                          \E j \in DOMAIN plines[k].items :
                            /\ ~plines[k].items[j].isCitation
                            /\ Trim(plines[k].items[j].text) # <<>>})

\* C21 witness: a page of two lines, the upper one a citation only: one line
\* of text is left
C21_Witness ==
  /\ pc = "pass2"
  /\ pageNum = 2
  /\ Len(plines) = 2
  /\ \A j \in DOMAIN plines[1].items : plines[1].items[j].isCitation
  /\ \E j \in DOMAIN plines[2].items : ~plines[2].items[j].isCitation
  /\ CountNewlines(fullText) = 1
  /\ CountNewlines(PlainLinesUpTo(2)) = 2

\* ------------------------------------------------------------------------
\* C22: the separator between a list and a paragraph (under SpecSeg)
\* ------------------------------------------------------------------------

\* the line holds a bullet glyph
HasGlyph(line) == \E i \in DOMAIN line : line[i] \in BulletChars

\* the line falls to the paragraph rule: text, no glyph, no list marker
IsParagraphLine(line) ==
  /\ Trim(line) # <<>>
  /\ ~HasGlyph(line)
  /\ MatchAlt(ReBulletMatch, 1, Trim(line)) = NoMatch
  /\ MatchAlt(ReNumberedMatch, 1, Trim(line)) = NoMatch

\* the line holds a glyph and text before its first glyph
HasLeadingSpan(line) == HasGlyph(line) /\ Trim(Spans(line)[1]) # <<>>

\* s starts with p
StartsWith(s, p) == Len(s) >= Len(p) /\ SubSeq(s, 1, Len(p)) = p

\* C22: a paragraph never directly follows a list item. While inList is
\* true, a line of the paragraph rule appends a blank separator line and
\* then its paragraph and clears inList; a line with text before its first
\* bullet glyph appends the separator and then that text; a blank line
\* appends the list terminator and the blank line and clears inList. While
\* inList is false no separator is put before a paragraph.
C22_SeparatorAfterList ==
  [][AtLine =>
       LET line == textLines[lineIdx]
       IN /\ (inList /\ Trim(line) = <<>>) =>
               (Appended = <<"\n", "\n">> /\ ~inList')
          /\ (inList /\ IsParagraphLine(line)) =>
               (Appended = <<"\n">> \o Trim(line) \o <<"\n">> /\ ~inList')
          /\ (inList /\ HasLeadingSpan(line)) =>
               StartsWith(Appended, <<"\n">> \o Trim(Spans(line)[1]))
          /\ (~inList /\ Trim(line) = <<>>) => (Appended = <<"\n">> /\ ~inList')
          /\ (~inList /\ (IsParagraphLine(line) \/ HasLeadingSpan(line))) =>
               Head(Appended) # "\n"]_vars

\* C22 witness: the paragraph "a" after the list line "- x", a blank line
\* between them, and the list closed
C22_Witness ==
  /\ pc = "lines"
  /\ lineIdx = 3
  /\ textLines[1] = ListLine
  /\ textLines[2] = <<"a">>
  /\ ~inList
  /\ markdown = Heading(file.name) \o <<"-", " ", "x", "\n", "\n", "a", "\n">>

\* ------------------------------------------------------------------------
\* C23: a marker with no white space behind it (under SpecSeg)
\* ------------------------------------------------------------------------

\* the trimmed line starts with one of the markers, a character that is no
\* white space right behind it, and holds no bullet glyph after the first
\* character
StartsTight(line, markers) ==
  LET t == Trim(line)
  IN /\ Len(t) >= 2
     /\ t[1] \in markers
     /\ t[2] \notin WS
     /\ \A i \in 2..Len(t) : t[i] \notin BulletChars

\* C23: a line that starts with a bullet glyph, a hyphen, an en dash or an
\* em dash with no white space behind it, and holds no other bullet glyph,
\* is appended as a paragraph with its trimmed text as it is, and inList is
\* false after it.
C23_TightMarkerIsParagraph ==
  [][(AtLine /\ StartsTight(textLines[lineIdx], BulletChars \cup DashChars)) =>
       /\ Appended = ParagraphOf(textLines[lineIdx])
       /\ ~inList']_vars

\* what the code does for the dashes: the line is a paragraph
C23_TightDashIsParagraph ==
  [][(AtLine /\ StartsTight(textLines[lineIdx], DashChars)) =>
       /\ Appended = ParagraphOf(textLines[lineIdx])
       /\ ~inList']_vars

\* what the code does for the bullet glyphs: the text behind the glyph is
\* a list item
C23_TightGlyphIsItem ==
  [][(AtLine /\ StartsTight(textLines[lineIdx], BulletChars)) =>
       /\ Appended = BulletItem(SubSeq(Trim(textLines[lineIdx]), 2, Len(Trim(textLines[lineIdx]))))
       /\ inList']_vars

\* ------------------------------------------------------------------------
\* C24: the numbering markers (under SpecSeg)
\* ------------------------------------------------------------------------

\* the lengths n such that the first n characters of t are a numbering (decimal
\* digits, one of the letters, or a numeral made of the roman characters)
\* followed by '.' or ')', white space and a remainder
MarkerLens(t, letters, romans) ==
  {n \in 1..(Len(t) - 3) :
     /\ \/ \A i \in 1..n : t[i] \in Digit
        \/ n = 1 /\ t[1] \in letters
        \/ \A i \in 1..n : t[i] \in romans
     /\ t[n + 1] \in {".", ")"}
     /\ t[n + 2] \in WS}

\* the line has text, no bullet glyph and no dash at its start
IsPlainStart(line) ==
  /\ Trim(line) # <<>>
  /\ ~HasGlyph(line)
  /\ Trim(line)[1] \notin DashChars

\* a step on a line without glyph or leading dash appends a numbered item
\* with the remainder of the line exactly if the line starts with a
\* numbering over the given letters and roman characters, and a paragraph
\* otherwise
NumberedExactlyIf(letters, romans) ==
  (AtLine /\ IsPlainStart(textLines[lineIdx])) =>
    LET t == Trim(textLines[lineIdx])
        ns == MarkerLens(t, letters, romans)
    IN IF ns # {}
       THEN /\ \E n \in ns : Appended = NumberedItem(TextAfter(t, n + 1))
            /\ inList'
       ELSE /\ Appended = ParagraphOf(t)
            /\ ~inList'

\* C24: a line without bullet glyph or leading dash is a NumberedItem exactly
\* if its trimmed text starts with decimal digits, one lowercase letter a-z
\* or a lowercase roman numeral, then '.' or ')', white space and a
\* remainder; a line that starts with an uppercase letter or numeral and a
\* '.' is a Paragraph.
C24_LowercaseNumbering ==
  [][NumberedExactlyIf(LowerAZ, {"i", "v", "x", "l", "c", "d", "m"})]_vars

\* what the code does: the letter and the roman numeral are taken in either case
C24_AnyCaseNumbering == [][NumberedExactlyIf(LowerAZ \cup UpperAZ, RomanChars)]_vars

\* ------------------------------------------------------------------------
\* The whole conversion on documents of a few short lines
\* ------------------------------------------------------------------------

\* the pages of those documents: an empty page; the line ".7"; the lines "a"
\* and "1 b"; the line "a" and a bold line "b"; a bold bullet glyph and the
\* line "****"; a list line
TextPages ==
  { <<>>,
    PageOfLines(<< <<".", "7">> >>),
    PageOfLines(<< <<"a">>, <<"1", " ", "b">> >>),
    <<Glyph(<<"a">>, 0, 2, 12, F1), Glyph(<<"b">>, 0, 0, 12, BoldFont)>>,
    <<Glyph(<<"*", "*", "*", "*">>, 0, 0, 12, F1), Glyph(<<"u2022">>, 0, 2, 12, BoldFont)>>,
    PageOfLines(<<ListLine>>) }

TextFiles ==
  {[name |-> <<"a", ".", "p", "d", "f">>, pages |-> ps] : ps \in SeqsUpTo(TextPages, MaxPages) \ {<<>>}}

InitText == \E f \in TextFiles : Start(f)

NextText ==
  \/ Open
  \/ Pass1Page
  \/ Classify
  \/ Pass2Page
  \/ CheckEmpty
  \/ StartFormat
  \/ FormatNext
  \/ FinishFormat
  \/ NormalizeStep
  \/ MergeStart
  \/ MergeIter
  \/ MergeReturn
  \/ Return
  \/ Catch

\* the conversion of a document of short lines, without failures of pdf.js
SpecText == InitText /\ [][NextText]_vars

\* the conversion returned a Markdown text
Converted == pc = "done" /\ result.success

\* what lines.forEach of formatAsMarkdown leaves for the text of the
\* document, before any clean-up
RawMarkdown ==
  FormatLines(SplitOn(fullText, {"\n"}, <<>>), 1,
              [markdown |-> Heading(file.name), inList |-> FALSE]).markdown

\* C25: the returned Markdown is the raw output of the Segmenter put through
\* the passes in the listed order, each on the result of the one before:
\* the three digit strippings, the merge of bold spans, the spacing around
\* the markers, the removal of empty bold spans, and last the collapse of
\* spaces and of runs of four or more newlines.
C25_ListedOrder ==
  Converted => result.markdown = CollapseNewlines(ApplyPasses(1, RawMarkdown))

\* what the code does: the runs of newlines are collapsed first, when
\* formatAsMarkdown returns, and the other passes follow in the listed order
C25_NewlinesFirst ==
  Converted => result.markdown = ApplyPasses(1, CollapseNewlines(RawMarkdown))

\* ------------------------------------------------------------------------
\* C26: runs of spaces and of newlines in the returned Markdown (under SpecText)
\* ------------------------------------------------------------------------

\* s holds n times the character c in a row
HasRun(s, c, n) ==
  \E i \in 1..(Len(s) - n + 1) : \A j \in i..(i + n - 1) : s[j] = c

\* C26: the Markdown of a successful conversion holds no two spaces in a row
\* and no four newlines in a row.
C26_NoLongRuns ==
  Converted => (~HasRun(result.markdown, " ", 2) /\ ~HasRun(result.markdown, "\n", 4))

\* what the code ensures: no two spaces in a row
C26_NoDoubleSpace == Converted => ~HasRun(result.markdown, " ", 2)

\* ------------------------------------------------------------------------
\* C27: inList and the block emitted last (under SpecSeg)
\* ------------------------------------------------------------------------

\* the kind of the last block a line makes the Segmenter emit, "None" for a
\* line that emits no block
LastBlockOf(line) ==
  LET t == Trim(line)
      sp == Spans(line)
  IN IF t = <<>> THEN "Blank"
     ELSE IF HasGlyph(line)
     THEN IF \E k \in 2..Len(sp) : Trim(sp[k]) # <<>> THEN "Item"
          ELSE IF Trim(sp[1]) # <<>> THEN "Paragraph"
          ELSE "None"
     ELSE IF Len(t) >= 3 /\ t[1] \in DashChars /\ t[2] \in WS THEN "Item"
     ELSE IF MarkerLens(t, LowerAZ \cup UpperAZ, RomanChars) # {} THEN "Item"
     ELSE "Paragraph"

\* the last line of a text that ends with a newline
LastLineOf(s) ==
  LET ls == SplitOn(s, {"\n"}, <<>>)
  IN IF Len(ls) >= 2 THEN ls[Len(ls) - 1] ELSE <<>>

\* C27: inList is true exactly if the block emitted last is a list item
\* (BulletItem or NumberedItem). It is false when the Segmenter starts; a
\* step whose last block is an item ("- ..." or "1. ...") leaves it true, a
\* step whose last block is a blank line or a paragraph leaves it false,
\* and a line that emits no block leaves it as it was.
C27_InListTracksLastBlock ==
  [][/\ pc = "format" => ~inList'
     /\ AtLine =>
          LET line == textLines[lineIdx]
              last == LastBlockOf(line)
          IN /\ inList' = (IF last = "None" THEN inList ELSE last = "Item")
             /\ last = "None" => Appended = <<>>
             /\ last = "Blank" => Appended \in {<<"\n">>, <<"\n", "\n">>}
             /\ last = "Item" =>
                  \/ StartsWith(LastLineOf(Appended), <<"-", " ">>)
                  \/ StartsWith(LastLineOf(Appended), <<"1", ".", " ">>)
             /\ last = "Paragraph" =>
                  Trim(LastLineOf(Appended)) = (IF HasGlyph(line) THEN Trim(Spans(line)[1]) ELSE Trim(line))]_vars

\* C27 witness: after the list line "- x" the line of one bullet glyph was
\* visited: nothing was emitted and inList is still true
C27_Witness ==
  /\ pc = "lines"
  /\ lineIdx = 3
  /\ textLines[1] = ListLine
  /\ textLines[2] = <<"u2022">>
  /\ inList
  /\ markdown = Heading(file.name) \o <<"-", " ", "x", "\n">>

\* ------------------------------------------------------------------------
\* C28: the lines of the Markdown across the post-processing (under SpecText)
\* ------------------------------------------------------------------------

\* the lines of a text that are not blank
NonBlankLines(s) == SelectSeq(SplitOn(s, {"\n"}, <<>>), LAMBDA l : Trim(l) # <<>>)

\* the lines the Segmenter returned whose text survives the post-processing
\* when it is applied to the line alone
SurvivingLines ==
  SelectSeq(NonBlankLines(CollapseNewlines(RawMarkdown)), LAMBDA l : Trim(Normalize(l)) # <<>>)

\* C28: the post-processing joins no two lines: every line of the
\* Segmenter's output whose text survives is a line of its own in the
\* returned Markdown, so the returned Markdown has at least as many
\* non-blank lines as there are surviving lines.
C28_NoLinesJoined ==
  Converted => Len(NonBlankLines(result.markdown)) >= Len(SurvivingLines)

\* ------------------------------------------------------------------------
\* C29: the outcomes of a conversion
\* ------------------------------------------------------------------------

\* the success outcome: non-empty Markdown, a file name, a page count
IsSuccess(r) ==
  /\ DOMAIN r = {"success", "markdown", "originalName", "pageCount", "info"}
  /\ r.success
  /\ r.markdown # <<>>
  /\ r.originalName = RenamedName(file.name)
  /\ r.pageCount = Len(file.pages)

\* the failure outcome: a non-empty message and no Markdown
IsFailure(r) ==
  /\ DOMAIN r = {"success", "error"}
  /\ ~r.success
  /\ r.error # ""

\* C29: a conversion ends with exactly one of two outcomes and no error
\* escapes it. Every error thrown inside, by pdf.js or by the engine, takes
\* the call to its catch clause, which returns the failure outcome
\* (success false, a non-empty message, no Markdown); a call in which
\* nothing was thrown returns success true with non-empty Markdown, the
\* file name and the page count. Nothing is returned before the end and
\* the outcome does not change afterwards.
C29_TwoOutcomes ==
  /\ [](pc # "done" => result = NoResult)
  /\ [](pc = "done" =>
          /\ IsSuccess(result) \/ IsFailure(result)
          /\ IsFailure(result) <=> thrown # NoError)
  /\ [][/\ (thrown = NoError /\ thrown' # NoError) => pc' = "catch"
        /\ pc = "catch" => (pc' = "done" /\ IsFailure(result'))
        /\ pc = "done" => result' = result]_vars

\* C29 witness: pdf.js failed with an empty message on the second page, and
\* the call returned the failure outcome with the default text
C29_Witness ==
  /\ pc = "done"
  /\ thrown = [by |-> "collaborator", message |-> ""]
  /\ allItems # <<>>
  /\ result = [success |-> FALSE, error |-> DefaultMessage]

\* ------------------------------------------------------------------------
\* The viewer: file selections and Clear, with conversions and reads in flight
\* ------------------------------------------------------------------------

\* the state of the component when it is mounted
ViewEmpty ==
  [markdown |-> <<>>, fileName |-> <<>>, error |-> "", isLoading |-> FALSE, isPdf |-> FALSE]

\* the files the user selects: two PDF documents, a Markdown file, a text file
ViewFiles ==
  { [name |-> <<"a">> \o ExtPdf, pages |-> <<PageOfLines(<< <<"a">> >>)>>, text |-> <<>>],
    [name |-> <<"b">> \o ExtPdf, pages |-> <<PageOfLines(<< <<"b">> >>)>>, text |-> <<>>],
    [name |-> <<"c">> \o ExtMd, pages |-> <<>>, text |-> <<"#", " ", "t">>],
    [name |-> <<"d", ".", "t", "x", "t">>, pages |-> <<>>, text |-> <<"x">>] }

\* the largest number of selections of a session
MaxSelections == 3

\* the file is handled as a PDF document
IsPdfFile(f) == EndsWith(ToLower(f.name), ExtPdf)

\* a call of readFile is waiting for its conversion or its FileReader
Pending(i) == other.calls[i].state = "pending"

\* what an awaited convertPdfToMarkdown(f) resolves to: the result of the
\* conversion, or the failure outcome when pdf.js fails
Outcomes(f) == {SoloResult(f), [success |-> FALSE, error |-> "Invalid PDF structure"]}

\* handleDrop / handleFileSelect: readFile(file) up to its await or to
\* reader.readAsText; the upload area is rendered while markdown is empty
ViewSelect ==
  /\ app.markdown = <<>>
  /\ Len(other.calls) < MaxSelections
  /\ \E f \in ViewFiles :
       /\ app' = IF Rejected(f.name) THEN [app EXCEPT !.error = RejectMessage]
                 ELSE IF IsPdfFile(f)
                 THEN [app EXCEPT !.error = "", !.fileName = f.name, !.isPdf = TRUE,
                                  !.isLoading = TRUE]
                 ELSE [app EXCEPT !.error = "", !.fileName = f.name, !.isPdf = FALSE]
       /\ other' = [calls |-> Append(other.calls,
                                     [file |-> f,
                                      state |-> IF Rejected(f.name) THEN "rejected" ELSE "pending"]),
                    last |-> "select",
                    overlap |-> other.overlap \/ \E i \in DOMAIN other.calls : Pending(i)]
  /\ UNCHANGED <<pc, file, numPages, pageNum, allItems, regularFont, plines, fullText,
                 textLines, lineIdx, markdown, inList, passIdx, thrown, result, cleaned,
                 iter, mlines, mIdx>>

\* the await of a call resumes: the result shown or the error, setIsLoading(false)
ViewConverted ==
  /\ \E i \in DOMAIN other.calls :
       /\ Pending(i)
       /\ IsPdfFile(other.calls[i].file)
       /\ \E r \in Outcomes(other.calls[i].file) :
            /\ app' = IF r.success
                      THEN [app EXCEPT !.markdown = r.markdown, !.fileName = r.originalName,
                                       !.isLoading = FALSE]
                      ELSE [app EXCEPT !.error = IF r.error # "" THEN r.error ELSE DefaultMessage,
                                       !.isLoading = FALSE]
            /\ other' = [other EXCEPT !.calls[i].state = IF r.success THEN "ok" ELSE "failed"]
  /\ UNCHANGED <<pc, file, numPages, pageNum, allItems, regularFont, plines, fullText,
                 textLines, lineIdx, markdown, inList, passIdx, thrown, result, cleaned,
                 iter, mlines, mIdx>>

\* reader.onload of a call: setMarkdown(e.target.result)
ViewLoaded ==
  /\ \E i \in DOMAIN other.calls :
       /\ Pending(i)
       /\ ~IsPdfFile(other.calls[i].file)
       /\ app' = [app EXCEPT !.markdown = other.calls[i].file.text]
       /\ other' = [other EXCEPT !.calls[i].state = "ok"]
  /\ UNCHANGED <<pc, file, numPages, pageNum, allItems, regularFont, plines, fullText,
                 textLines, lineIdx, markdown, inList, passIdx, thrown, result, cleaned,
                 iter, mlines, mIdx>>

\* reader.onerror of a call: setError('Error reading file')
ViewReadError ==
  /\ \E i \in DOMAIN other.calls :
       /\ Pending(i)
       /\ ~IsPdfFile(other.calls[i].file)
       /\ app' = [app EXCEPT !.error = ReadErrorMessage]
       /\ other' = [other EXCEPT !.calls[i].state = "failed"]
  /\ UNCHANGED <<pc, file, numPages, pageNum, allItems, regularFont, plines, fullText,
                 textLines, lineIdx, markdown, inList, passIdx, thrown, result, cleaned,
                 iter, mlines, mIdx>>

\* handleClear; the Clear button is rendered while markdown is not empty
ViewClear ==
  /\ app.markdown # <<>>
  /\ app' = [app EXCEPT !.markdown = <<>>, !.fileName = <<>>, !.error = "", !.isPdf = FALSE]
  /\ other' = [other EXCEPT !.last = "clear",
                            !.overlap = other.overlap \/ \E i \in DOMAIN other.calls : Pending(i)]
  /\ UNCHANGED <<pc, file, numPages, pageNum, allItems, regularFont, plines, fullText,
                 textLines, lineIdx, markdown, inList, passIdx, thrown, result, cleaned,
                 iter, mlines, mIdx>>

InitView ==
  /\ app = ViewEmpty
  /\ other = [calls |-> <<>>, last |-> "none", overlap |-> FALSE]
  /\ LocalsAt([name |-> <<>>, pages |-> <<>>], "idle")

NextView ==
  \/ ViewSelect
  \/ ViewConverted
  \/ ViewLoaded
  \/ ViewReadError
  \/ ViewClear

\* a session of the viewer: selections and Clear clicks, the conversions
\* and reads they start completing in any order
SpecView == InitView /\ [][NextView]_vars

\* every started conversion and read has completed
Quiescent == \A i \in DOMAIN other.calls : ~Pending(i)

\* the viewer shows the file f: its content, its name, its PDF flag
Shows(f) ==
  IF IsPdfFile(f)
  THEN /\ app.markdown = SoloResult(f).markdown
       /\ app.fileName = RenamedName(f.name)
       /\ app.isPdf
  ELSE /\ app.markdown = f.text
       /\ app.fileName = f.name
       /\ ~app.isPdf

\* the last user action decides what the viewer shows: nothing after Clear,
\* the file selected last after a selection that was loaded
LastActionShown ==
  /\ other.last = "clear" => (app.markdown = <<>> /\ app.fileName = <<>> /\ ~app.isPdf)
  /\ (other.last = "select" /\ other.calls[Len(other.calls)].state = "ok") =>
       Shows(other.calls[Len(other.calls)].file)

\* C30: the last user action wins: once every started conversion and read
\* has completed, the viewer shows the content, the name and the PDF flag of
\* the file selected last, or nothing if Clear was the last action.
C30_LastActionWins == Quiescent => LastActionShown

\* what the code ensures: the same, in the sessions in which no selection
\* and no Clear was made while a conversion or a read was in flight
C30_WithoutOverlap == (Quiescent /\ ~other.overlap) => LastActionShown

====
